---- MODULE Spec2Model ----
(***************************************************************************)
(* A model of OpenClaw-Robotics: the plugin registry and plugin lifecycle  *)
(* of src/src/core/plugin_system.py with the robot drivers that plug into  *)
(* it, and the command parser, robot factory, adapters and command         *)
(* dispatcher of src/skill/robot-controller.                               *)
(*                                                                         *)
(* Python strings are sequences of one-character strings, so that          *)
(* concatenation, substring search and regular-expression matching are     *)
(* computed and not assumed.  The text "a@b" is <<"a","@","b">> unless a   *)
(* word is written as one token, which is said where it is done.           *)
(***************************************************************************)
EXTENDS Integers, Sequences, FiniteSets, TLC

VARIABLES
    plugins,         \* PluginRegistry._plugins: insertion-ordered dict, key -> instance
    metadata,        \* PluginRegistry._metadata: insertion-ordered dict, key -> PluginMetadata
    is_initialized,  \* PluginBase._is_initialized of every plugin instance
    is_running,      \* PluginBase._is_running of every plugin instance
    calls,           \* lifecycle methods invoked during the last registry operation
    lastOp,          \* the last registry operation and its argument
    ret,             \* what the last registry operation returned, or "raise"
    tpc,             \* concurrent register(): the line each execution context is at
    targ,            \* concurrent register(): the plugin each context registers
    tret,            \* concurrent register(): what each context's call returned
    inserted,        \* concurrent register(): per key, the plugin line 216 stored last
    text,            \* CommandParser.parse: the command text
    parsed,          \* CommandParser.parse: the ParsedCommand returned, or the exception
    _registry,       \* RobotFactory._registry: insertion-ordered dict, code -> adapter class
    _parser,         \* skill.py's module global _parser
    _current_robot,  \* skill.py's module global _current_robot: None or an adapter instance
    created,         \* how many adapter instances have been constructed
    lastCall,        \* the last factory or skill call and its arguments
    result,          \* what that call returned, or the exception it raised
    robot_calls,     \* the adapter operations (and sleeps) of that call, in order
    controller_connected,  \* UnitreeRobotController.connected
    current_speed,   \* UnitreeRobotController.current_speed
    command_history, \* WhatsAppMessageHandler.command_history
    arrived,         \* every message process_message() was given, with its sender, in order
    lastIO           \* the last controller or handler call, its arguments and what it returned

regVars == <<plugins, metadata, is_initialized, is_running, calls, lastOp, ret>>
concVars == <<tpc, targ, tret, inserted>>
parseVars == <<text, parsed>>
execVars == <<_registry, _parser, _current_robot, created, lastCall, result, robot_calls>>
chatVars == <<controller_connected, current_speed, command_history, arrived, lastIO>>
vars == <<plugins, metadata, is_initialized, is_running, calls, lastOp, ret,
          tpc, targ, tret, inserted, text, parsed,
          _registry, _parser, _current_robot, created, lastCall, result, robot_calls,
          controller_connected, current_speed, command_history, arrived, lastIO>>

(***************************************************************************)
(* Bounds of the model.                                                    *)
(***************************************************************************)
\* The plugin instances the callers hold.
NumInstances == 4
\* The execution contexts that call register() concurrently.
NumThreads == 2
\* The commands a text is made of (phrases and connectives).
MaxParts == 3
\* The interpreter's recursion limit, in parse() frames.
MaxDepth == 3

Instances == 1 .. NumInstances
Threads == 1 .. NumThreads

(***************************************************************************)
(* Ordered dictionaries (Python dict keeps insertion order).               *)
(***************************************************************************)
RECURSIVE DictIndex(_, _, _)
\* The position of key k in dict d at or after n, 0 when absent.
DictIndex(d, k, n) ==
    IF n > Len(d) THEN 0
    ELSE IF d[n].key = k THEN n
    ELSE DictIndex(d, k, n + 1)

\* `k in d`
DictHas(d, k) == DictIndex(d, k, 1) # 0

\* `d[k]` for a key that is present
DictGet(d, k) == d[DictIndex(d, k, 1)].val

\* `d.setdefault(k, v)`: a present key keeps its value
DictSetDefault(d, k, v) ==
    IF DictHas(d, k) THEN d ELSE Append(d, [key |-> k, val |-> v])

\* `d[k] = v`: a present key keeps its place, a new key goes last
DictSet(d, k, v) ==
    IF DictHas(d, k)
    THEN [d EXCEPT ![DictIndex(d, k, 1)] = [key |-> k, val |-> v]]
    ELSE Append(d, [key |-> k, val |-> v])

\* `del d[k]` for a key that is present
DictDel(d, k) ==
    LET n == DictIndex(d, k, 1)
    IN  SubSeq(d, 1, n - 1) \o SubSeq(d, n + 1, Len(d))

DictKeys(d) == {d[n].key : n \in 1 .. Len(d)}

(***************************************************************************)
(* The plugin classes.  GO1Driver, GO2Driver and G1Driver are alike in     *)
(* every lifecycle method; "custom" is a subclass a user of the framework  *)
(* writes, whose lifecycle methods may fail; "needs_sdk" declares a        *)
(* dependency that cannot be imported.                                     *)
(***************************************************************************)
\* The modules importlib.import_module can import.
Importable == {"time"}

ClassTable ==
    << [PLUGIN_NAME |-> <<"custom">>, PLUGIN_VERSION |-> <<"1.0.0">>,
        DEPENDENCIES |-> <<"time">>, driver |-> FALSE, fallible |-> TRUE],
       [PLUGIN_NAME |-> <<"unitree_go1">>, PLUGIN_VERSION |-> <<"1.0.0">>,
        DEPENDENCIES |-> <<>>, driver |-> TRUE, fallible |-> FALSE],
       [PLUGIN_NAME |-> <<"custom">>, PLUGIN_VERSION |-> <<"1.0.0">>,
        DEPENDENCIES |-> <<"time">>, driver |-> FALSE, fallible |-> TRUE],
       [PLUGIN_NAME |-> <<"needs_sdk">>, PLUGIN_VERSION |-> <<"1.0.0">>,
        DEPENDENCIES |-> <<"time", "unitree_sdk2py">>, driver |-> FALSE,
        fallible |-> FALSE] >>

\* The class of plugin instance i.
ClassOf(i) == ClassTable[((i - 1) % Len(ClassTable)) + 1]

\* f"{name}@{version}" if version else name
FullName(name, version) ==
    IF version # <<>> THEN name \o <<"@">> \o version ELSE name

\* register(): full_name of a plugin instance
KeyOf(i) == FullName(ClassOf(i).PLUGIN_NAME, ClassOf(i).PLUGIN_VERSION)

\* PluginBase.get_metadata
get_metadata(i) ==
    [name |-> ClassOf(i).PLUGIN_NAME, version |-> ClassOf(i).PLUGIN_VERSION,
     dependencies |-> ClassOf(i).DEPENDENCIES]

RECURSIVE check_deps_from(_, _)
check_deps_from(deps, n) ==
    IF n > Len(deps) THEN TRUE
    ELSE IF deps[n] \notin Importable THEN FALSE
    ELSE check_deps_from(deps, n + 1)

\* A dependency check that reports success whatever is declared.
check_dependencies_skipped(i) == TRUE

\* PluginBase.check_dependencies
check_dependencies(i) == check_deps_from(ClassOf(i).DEPENDENCIES, 1)

(***************************************************************************)
(* Lifecycle methods.  A registry operation runs on an execution record    *)
(* es = [init, run, calls, ret]: the two flags of every instance, the      *)
(* calls made so far and the operation's outcome.  Whether a method of a   *)
(* "custom" plugin succeeds is the plugin author's code and is an input:   *)
(* o is "ok", "false" (initialize() returning False) or "raise".           *)
(***************************************************************************)
Outcomes == {"ok", "false", "raise"}

\* What the methods of instance i can do: only a fallible class fails.
OutcomesOf(i, allowed) ==
    IF ClassOf(i).fallible THEN allowed ELSE {"ok"}

\* One entry of the call log: method m of instance i, called by the registry
\* or by the plugin itself, and how the call ended.
Call(m, i, by, out) == [m |-> m, inst |-> i, by |-> by, out |-> out]

Log(es, m, i, by, out) == [es EXCEPT !.calls = Append(@, Call(m, i, by, out))]

\* plugin.initialize(): abstract in PluginBase; the drivers return True.
initialize(es, i, o) ==
    Log(es, "initialize", i, "registry",
        CASE o = "ok" -> "True" [] o = "false" -> "False" [] OTHER -> "raise")

\* PluginBase.start
PluginBase_start(es, i, by) ==
    IF es.run[i]
    THEN Log(es, "start", i, by, "True")
    ELSE Log([es EXCEPT !.run[i] = TRUE], "start", i, by, "True")

\* PluginBase.stop
PluginBase_stop(es, i, by) ==
    Log([es EXCEPT !.run[i] = FALSE], "stop", i, by, "None")

\* GO1Driver.stop (GO2Driver.stop and G1Driver.stop are the same): prints and
\* returns True; the base class's stop() is not called.
GO1Driver_stop(es, i, by) == Log(es, "stop", i, by, "True")

\* plugin.start(): no shipped class overrides it; a custom one may raise.
start(es, i, o) ==
    IF o = "raise" THEN Log(es, "start", i, "registry", "raise")
    ELSE PluginBase_start(es, i, "registry")

\* plugin.stop(), dispatched on the class.
stop(es, i, o) ==
    IF ClassOf(i).driver THEN GO1Driver_stop(es, i, "registry")
    ELSE IF o = "raise" THEN Log(es, "stop", i, "registry", "raise")
    ELSE PluginBase_stop(es, i, "registry")

\* plugin.shutdown(): abstract in PluginBase; GO1Driver.shutdown is
\* self.stop(); self.disconnect().
shutdown(es, i, o) ==
    IF ClassOf(i).driver
    THEN Log(GO1Driver_stop(es, i, "self"), "shutdown", i, "registry", "None")
    ELSE IF o = "raise" THEN Log(es, "shutdown", i, "registry", "raise")
    ELSE Log(es, "shutdown", i, "registry", "None")

\* Whether the last call of the log raised.
Raised(es) == Len(es.calls) > 0 /\ es.calls[Len(es.calls)].out = "raise"

\* The execution record a registry operation starts from.
Entry == [init |-> is_initialized, run |-> is_running, calls |-> <<>>, ret |-> "None"]

Return(es, v) == [es EXCEPT !.ret = v]

(***************************************************************************)
(* Bulk operations: loops over self._plugins.items().  oc gives, for each  *)
(* instance, how its method ends in this call.                             *)
(***************************************************************************)
RECURSIVE initialize_all_from(_, _, _)
\* PluginRegistry.initialize_all, from the n-th plugin on
initialize_all_from(es, n, oc) ==
    IF n > Len(plugins) THEN Return(es, "True")
    ELSE LET i == plugins[n].val
         IN  IF es.init[i] THEN initialize_all_from(es, n + 1, oc)
             ELSE LET e1 == initialize(es, i, oc[i])
                  IN  IF Raised(e1) THEN Return(e1, "False")
                      ELSE IF oc[i] = "ok"
                      THEN initialize_all_from([e1 EXCEPT !.init[i] = TRUE], n + 1, oc)
                      ELSE initialize_all_from(e1, n + 1, oc)

RECURSIVE start_all_continuing(_, _, _)
\* A start_all that logs a failure and goes on to the next plugin.
start_all_continuing(es, n, oc) ==
    IF n > Len(plugins) THEN Return(es, "True")
    ELSE start_all_continuing(start(es, plugins[n].val, oc[plugins[n].val]), n + 1, oc)

RECURSIVE start_all_from(_, _, _)
\* PluginRegistry.start_all, from the n-th plugin on
start_all_from(es, n, oc) ==
    IF n > Len(plugins) THEN Return(es, "True")
    ELSE LET e1 == start(es, plugins[n].val, oc[plugins[n].val])
         IN  IF Raised(e1) THEN Return(e1, "False")
             ELSE start_all_from(e1, n + 1, oc)

RECURSIVE stop_all_from(_, _, _)
\* PluginRegistry.stop_all, from the n-th plugin on
stop_all_from(es, n, oc) ==
    IF n > Len(plugins) THEN Return(es, "None")
    ELSE stop_all_from(stop(es, plugins[n].val, oc[plugins[n].val]), n + 1, oc)

RECURSIVE shutdown_all_from(_, _, _)
\* PluginRegistry.shutdown_all, from the n-th plugin on
shutdown_all_from(es, n, oc) ==
    IF n > Len(plugins) THEN Return(es, "None")
    ELSE LET i == plugins[n].val
         IN  IF ~es.init[i] THEN shutdown_all_from(es, n + 1, oc)
             ELSE LET e1 == shutdown(es, i, oc[i])
                  IN  IF Raised(e1) THEN shutdown_all_from(e1, n + 1, oc)
                      ELSE shutdown_all_from([e1 EXCEPT !.init[i] = FALSE], n + 1, oc)

\* PluginRegistry.unregister, once full_name is found in self._plugins: the
\* maps after it and the execution record.  No try/except surrounds the calls.
unregister_found(full_name, so, sh) ==
    LET i == DictGet(plugins, full_name)
        e1 == IF is_running[i] THEN stop(Entry, i, so) ELSE Entry
        e2 == IF Raised(e1) THEN e1
              ELSE IF e1.init[i] THEN shutdown(e1, i, sh) ELSE e1
    IN  IF Raised(e2)
        THEN [es |-> Return(e2, "raise"), plugins |-> plugins, metadata |-> metadata]
        ELSE [es |-> Return(e2, "None"),
              plugins |-> DictDel(plugins, full_name),
              metadata |-> DictDel(metadata, full_name)]

(***************************************************************************)
(* The registry's operations as actions, each a whole call.                *)
(***************************************************************************)
Op(op, i, name, version) == [op |-> op, inst |-> i, name |-> name, version |-> version]

\* The effect of an operation that ended in execution record es.
Finish(es) ==
    /\ is_initialized' = es.init
    /\ is_running' = es.run
    /\ calls' = es.calls
    /\ ret' = es.ret

\* PluginRegistry.register(plugin)
Register(i) ==
    /\ lastOp' = Op("register", i, <<>>, <<>>)
    /\ IF DictHas(plugins, KeyOf(i))
       THEN Finish(Return(Entry, "False")) /\ UNCHANGED <<plugins, metadata>>
       ELSE IF ~check_dependencies(i)
       THEN Finish(Return(Entry, "False")) /\ UNCHANGED <<plugins, metadata>>
       ELSE /\ plugins' = DictSet(plugins, KeyOf(i), i)
            /\ metadata' = DictSet(metadata, KeyOf(i), get_metadata(i))
            /\ Finish(Return(Entry, "True"))
    /\ UNCHANGED <<concVars, parseVars, chatVars, execVars>>

\* PluginRegistry.unregister(name, version)
Unregister(name, version, so, sh) ==
    LET full_name == FullName(name, version)
    IN  /\ lastOp' = Op("unregister", 0, name, version)
        /\ IF DictHas(plugins, full_name)
           THEN LET r == unregister_found(full_name, so, sh)
                IN  /\ plugins' = r.plugins
                    /\ metadata' = r.metadata
                    /\ Finish(r.es)
           ELSE Finish(Entry) /\ UNCHANGED <<plugins, metadata>>
        /\ UNCHANGED <<concVars, parseVars, chatVars, execVars>>

\* What a bulk operation leaves: the maps as they were, the flags and log of es.
Bulk(op, es) ==
    /\ lastOp' = Op(op, 0, <<>>, <<>>)
    /\ Finish(es)
    /\ UNCHANGED <<plugins, metadata, concVars, parseVars, chatVars, execVars>>

\* The per-instance outcomes of one bulk call.
OutcomeMaps(allowed) ==
    {oc \in [Instances -> Outcomes] : \A i \in Instances : oc[i] \in OutcomesOf(i, allowed)}

InitializeAll(oc) == Bulk("initialize_all", initialize_all_from(Entry, 1, oc))

StartAll(oc) == Bulk("start_all", start_all_from(Entry, 1, oc))

StopAll(oc) == Bulk("stop_all", stop_all_from(Entry, 1, oc))

ShutdownAll(oc) == Bulk("shutdown_all", shutdown_all_from(Entry, 1, oc))

\* The names and versions callers pass to unregister().
UnregisterNames ==
    {ClassOf(i).PLUGIN_NAME : i \in Instances} \cup {KeyOf(i) : i \in Instances}

UnregisterVersions == {<<>>} \cup {ClassOf(i).PLUGIN_VERSION : i \in Instances}

(***************************************************************************)
(* The registry used from one execution context (spec.md, section 5).      *)
(***************************************************************************)
\* PluginBase.__init__ and PluginRegistry.__init__
RegInit ==
    /\ plugins = <<>>
    /\ metadata = <<>>
    /\ is_initialized = [i \in Instances |-> FALSE]
    /\ is_running = [i \in Instances |-> FALSE]
    /\ calls = <<>>
    /\ lastOp = Op("none", 0, <<>>, <<>>)
    /\ ret = "None"

\* No concurrent register() call is under way.
ConcIdle ==
    /\ tpc = [t \in Threads |-> "idle"]
    /\ targ = [t \in Threads |-> 0]
    /\ tret = [t \in Threads |-> "None"]
    /\ inserted = {}

\* No command is being parsed.
ParseIdle ==
    /\ text = <<>>
    /\ parsed = [kind |-> "none"]

\* The registrations of robot_factory.py, in the order they are made.
DefaultRegistry ==
    << [key |-> "unitree_go1", val |-> "UnitreeGO1Adapter"],
       [key |-> "unitree_go2", val |-> "UnitreeGO2Adapter"],
       [key |-> "unitree_g1", val |-> "UnitreeG1Adapter"],
       [key |-> "unitree_h1", val |-> "UnitreeH1Adapter"] >>

\* Python's None where an adapter instance can stand.
None == [cls |-> "NoneType", id |-> 0, connected |-> FALSE,
         fault |-> [method |-> "none", how |-> "ok"]]

\* The skill module as imported: the factory holds its default registrations,
\* no parser and no robot yet.
ExecIdle ==
    /\ _registry = DefaultRegistry
    /\ _parser = "None"
    /\ _current_robot = None
    /\ created = 0
    /\ lastCall = [op |-> "none"]
    /\ result = [kind |-> "none"]
    /\ robot_calls = <<>>

\* The controller as constructed (current_speed = 0.5, not connected) and
\* the message handler as constructed on it, nothing called yet.
ChatIdle ==
    /\ controller_connected = FALSE
    /\ current_speed = [neg |-> FALSE, whole |-> 0, frac |-> <<5>>]
    /\ command_history = <<>>
    /\ arrived = <<>>
    /\ lastIO = [op |-> "none"]

Init == RegInit /\ ConcIdle /\ ParseIdle /\ ExecIdle /\ ChatIdle

Next ==
    \/ \E i \in Instances : Register(i)
    \/ \E name \in UnregisterNames, version \in UnregisterVersions,
          so \in {"ok", "raise"}, sh \in {"ok", "raise"} :
            Unregister(name, version, so, sh)
    \/ \E oc \in OutcomeMaps(Outcomes) : InitializeAll(oc)
    \/ \E oc \in OutcomeMaps({"ok", "raise"}) : StartAll(oc)
    \/ \E oc \in OutcomeMaps({"ok", "raise"}) : StopAll(oc)
    \/ \E oc \in OutcomeMaps({"ok", "raise"}) : ShutdownAll(oc)

Spec == Init /\ [][Next]_vars

(***************************************************************************)
(* register() called from several execution contexts.  The registry takes  *)
(* no lock, so a context can be suspended between any two statements of    *)
(* register(): the steps are its statements.                               *)
(***************************************************************************)
\* A context calls register(plugin): lines 202-204.
RegCall(t, i) ==
    /\ tpc[t] \in {"idle", "done"}
    /\ tpc' = [tpc EXCEPT ![t] = "check"]
    /\ targ' = [targ EXCEPT ![t] = i]
    /\ tret' = [tret EXCEPT ![t] = "None"]
    /\ UNCHANGED <<inserted, regVars, parseVars, chatVars, execVars>>

\* if full_name in self._plugins: return False (lines 206-208)
RegCheck(t) ==
    /\ tpc[t] = "check"
    /\ IF DictHas(plugins, KeyOf(targ[t]))
       THEN /\ tpc' = [tpc EXCEPT ![t] = "done"]
            /\ tret' = [tret EXCEPT ![t] = "False"]
       ELSE /\ tpc' = [tpc EXCEPT ![t] = "deps"]
            /\ UNCHANGED tret
    /\ UNCHANGED <<targ, inserted, regVars, parseVars, chatVars, execVars>>

\* if not plugin.check_dependencies(): return False (lines 211-213)
RegDeps(t) ==
    /\ tpc[t] = "deps"
    /\ IF ~check_dependencies(targ[t])
       THEN /\ tpc' = [tpc EXCEPT ![t] = "done"]
            /\ tret' = [tret EXCEPT ![t] = "False"]
       ELSE /\ tpc' = [tpc EXCEPT ![t] = "put"]
            /\ UNCHANGED tret
    /\ UNCHANGED <<targ, inserted, regVars, parseVars, chatVars, execVars>>

\* self._plugins[full_name] = plugin (line 216)
RegPutPlugin(t) ==
    /\ tpc[t] = "put"
    /\ plugins' = DictSet(plugins, KeyOf(targ[t]), targ[t])
    /\ inserted' = {j \in inserted : KeyOf(j) # KeyOf(targ[t])} \cup {targ[t]}
    /\ tpc' = [tpc EXCEPT ![t] = "meta"]
    /\ UNCHANGED <<targ, tret, metadata, is_initialized, is_running, calls,
                   lastOp, ret, parseVars, chatVars, execVars>>

\* self._metadata[full_name] = plugin.get_metadata(); return True (lines 217-220)
RegPutMetadata(t) ==
    /\ tpc[t] = "meta"
    /\ metadata' = DictSet(metadata, KeyOf(targ[t]), get_metadata(targ[t]))
    /\ tpc' = [tpc EXCEPT ![t] = "done"]
    /\ tret' = [tret EXCEPT ![t] = "True"]
    /\ UNCHANGED <<targ, inserted, plugins, is_initialized, is_running, calls,
                   lastOp, ret, parseVars, chatVars, execVars>>

ConcNext ==
    \/ \E t \in Threads, i \in Instances : RegCall(t, i)
    \/ \E t \in Threads : RegCheck(t)
    \/ \E t \in Threads : RegDeps(t)
    \/ \E t \in Threads : RegPutPlugin(t)
    \/ \E t \in Threads : RegPutMetadata(t)

SpecConc == Init /\ [][ConcNext]_vars

(***************************************************************************)
(* Properties of the registry.                                             *)
(***************************************************************************)
\* The instances registered, in registration order.
Registered == [n \in 1 .. Len(plugins) |-> plugins[n].val]

\* The calls of a log that the registry itself made.
ByRegistry(cs) == SelectSeq(cs, LAMBDA c : c.by = "registry")

\* The methods of a log, in order.
Methods(cs) == [n \in 1 .. Len(cs) |-> cs[n].m]

\* The instances of a log, in order.
Receivers(cs) == [n \in 1 .. Len(cs) |-> cs[n].inst]

\* Every declared dependency of plugin i can be imported.
DependenciesResolvable(i) ==
    \A n \in 1 .. Len(ClassOf(i).DEPENDENCIES) : ClassOf(i).DEPENDENCIES[n] \in Importable

\* C1: every registered plugin that is Running is also Initialized.
\* (start_all() starts a plugin that was never initialized, and shutdown_all()
\* clears Initialized on a plugin that is still Running.)
C1_RunningImpliesInitialized ==
    \A n \in 1 .. Len(plugins) :
        is_running[plugins[n].val] => is_initialized[plugins[n].val]

\* C2: register(plugin) returns false and leaves both maps as they were when
\* the key name@version is already registered or a declared dependency cannot
\* be resolved; otherwise it returns true and adds exactly that key, with the
\* instance and its metadata, to both maps.
C2_RegisterContract ==
    [][lastOp'.op = "register" =>
        LET i == lastOp'.inst
            k == KeyOf(i)
        IN  IF k \in DictKeys(plugins) \/ ~DependenciesResolvable(i)
            THEN /\ ret' = "False"
                 /\ plugins' = plugins
                 /\ metadata' = metadata
            ELSE /\ ret' = "True"
                 /\ Len(plugins') = Len(plugins) + 1
                 /\ Len(metadata') = Len(metadata) + 1
                 /\ DictKeys(plugins') = DictKeys(plugins) \cup {k}
                 /\ DictKeys(metadata') = DictKeys(metadata) \cup {k}
                 /\ DictGet(plugins', k) = i
                 /\ DictGet(metadata', k) = get_metadata(i)
                 /\ \A j \in DictKeys(plugins) : DictGet(plugins', j) = DictGet(plugins, j)
                 /\ \A j \in DictKeys(metadata) : DictGet(metadata', j) = DictGet(metadata, j)
    ]_vars

\* C2 witness: a second instance of a registered name@version was refused.
C2_DuplicateRefused ==
    /\ lastOp.op = "register"
    /\ ret = "False"
    /\ DictHas(plugins, KeyOf(lastOp.inst))
    /\ DictGet(plugins, KeyOf(lastOp.inst)) # lastOp.inst
    /\ DependenciesResolvable(lastOp.inst)

\* C3: unregister of a registered plugin has the registry call stop() once iff
\* the plugin is Running, then shutdown() once iff it is Initialized, and then
\* removes the key from both maps.
C3_UnregisterStopsShutsDownRemoves ==
    [][(/\ lastOp'.op = "unregister"
        /\ DictHas(plugins, FullName(lastOp'.name, lastOp'.version))) =>
        LET k == FullName(lastOp'.name, lastOp'.version)
            i == DictGet(plugins, k)
        IN  /\ Methods(ByRegistry(calls')) =
                  (IF is_running[i] THEN <<"stop">> ELSE <<>>)
                  \o (IF is_initialized[i] THEN <<"shutdown">> ELSE <<>>)
            /\ k \notin DictKeys(plugins')
            /\ k \notin DictKeys(metadata')
    ]_vars

\* C4: initialize_all() stops and returns false at the first plugin whose
\* initialize() raises or returns false: that call is the last of the cycle.
C4_InitializeAllStopsAtFirstFailure ==
    lastOp.op = "initialize_all" =>
        \A n \in 1 .. Len(calls) :
            calls[n].out \in {"False", "raise"} => n = Len(calls) /\ ret = "False"

\* The method a bulk operation calls on each plugin.
BulkMethod(op) ==
    CASE op = "start_all" -> "start"
      [] op = "stop_all" -> "stop"
      [] op = "shutdown_all" -> "shutdown"

C6_StopAllLeavesNoneRunning ==
    [][(/\ lastOp'.op = "stop_all"
        /\ \A n \in 1 .. Len(calls') : calls'[n].out # "raise") =>
        \A n \in 1 .. Len(plugins') :
            /\ ~is_running'[plugins'[n].val]
            /\ is_initialized'[plugins'[n].val] = is_initialized[plugins'[n].val]
    ]_vars

\* C7: no registry operation lets a plugin's exception reach the caller, and
\* the two maps hold the same keys.
C7_NoExceptionEscapes ==
    /\ ret # "raise"
    /\ DictKeys(plugins) = DictKeys(metadata)

\* The last instance inserted under key k by any context, 0 when none was.
LastInserted(k) ==
    IF \E j \in inserted : KeyOf(j) = k
    THEN CHOOSE j \in inserted : KeyOf(j) = k
    ELSE 0

\* C8: register() is not atomic: when two contexts have both returned true for
\* distinct plugins of one name@version, the registry holds one entry for that
\* key, the instance inserted last, and the instance inserted earlier is gone.
C8_LaterInsertionReplacesEarlier ==
    \A a, b \in Threads :
        (/\ a # b
         /\ tpc[a] = "done" /\ tpc[b] = "done"
         /\ tret[a] = "True" /\ tret[b] = "True"
         /\ targ[a] # targ[b]
         /\ KeyOf(targ[a]) = KeyOf(targ[b]))
        => LET k == KeyOf(targ[a])
           IN  /\ Cardinality({n \in 1 .. Len(plugins) : plugins[n].key = k}) = 1
               /\ DictGet(plugins, k) = LastInserted(k)
               /\ \E i \in {targ[a], targ[b]} :
                     \A n \in 1 .. Len(plugins) : plugins[n].val # i

\* C8 witness: two register() calls for one name@version both returned true.
C8_BothReturnedTrue ==
    \E a, b \in Threads :
        /\ a # b
        /\ tpc[a] = "done" /\ tpc[b] = "done"
        /\ tret[a] = "True" /\ tret[b] = "True"
        /\ targ[a] # targ[b]
        /\ KeyOf(targ[a]) = KeyOf(targ[b])

(***************************************************************************)
(* The command parser (src/skill/robot-controller/command_parser.py).      *)
(* A text is a sequence of characters; a character of the source's         *)
(* patterns is written by an ASCII name:                                   *)
\*   xiang    U+5411
\*   qian     U+524D
\*   jin      U+8FDB
\*   wang     U+5F80
\*   zou      U+8D70
\*   chao     U+671D
\*   mi       U+7C73
\*   hou      U+540E
\*   tui      U+9000
\*   zuo      U+5DE6
\*   zhuan    U+8F6C
\*   du       U+5EA6
\*   ni       U+9006
\*   shi      U+65F6
\*   zhen     U+9488
\*   you      U+53F3
\*   shun     U+987A
\*   zhan     U+7AD9
\*   qi       U+8D77
\*   lai      U+6765
\*   li       U+7ACB
\*   zuo4     U+5750
\*   xia      U+4E0B
\*   dun      U+8E72
\*   tang     U+8EBA
\*   wo       U+5367
\*   dao      U+5012
\*   hui      U+6325
\*   shou     U+624B
\*   zhao     U+62DB
\*   wo4      U+63E1
\*   zhua     U+6293
\*   na       U+62FF
\*   fang     U+653E
\*   song     U+677E
\*   kai      U+5F00
\*   shi4     U+91CA
\*   qu       U+53BB
\*   wei      U+4F4D
\*   zhi4     U+7F6E
\*   dao3     U+5BFC
\*   hang     U+822A
\*   dao4     U+5230
\*   cha      U+67E5
\*   kan      U+770B
\*   huo      U+83B7
\*   qu3      U+53D6
\*   dian     U+7535
\*   liang    U+91CF
\*   ting     U+505C
\*   zhi      U+6B62
\*   zan      U+6682
\*   ran      U+7136
\*   zai      U+518D
\*   jie      U+63A5
\*   zhe      U+7740
\*   fwcomma  U+FF0C
\*   ,        U+002C
\*   nin      U+4F60
\*   hao      U+597D
\*   de       U+7684
(* Digits, ".", "," and " " are themselves.                               *)
(***************************************************************************)
Digits == {"0", "1", "2", "3", "4", "5", "6", "7", "8", "9"}

\* The value of a digit character.
DigitValue(c) ==
    CASE c = "0" -> 0 [] c = "1" -> 1 [] c = "2" -> 2 [] c = "3" -> 3 [] c = "4" -> 4
      [] c = "5" -> 5 [] c = "6" -> 6 [] c = "7" -> 7 [] c = "8" -> 8 [] c = "9" -> 9

\* A float as its decimal expansion: sign, whole part, fraction digits
\* without trailing zeros.
Float(neg, whole, frac) == [neg |-> neg, whole |-> whole, frac |-> frac]

RECURSIVE DigitRun(_, _)
\* How many digits s holds from position pos on.
DigitRun(s, pos) ==
    IF pos <= Len(s) /\ s[pos] \in Digits THEN 1 + DigitRun(s, pos + 1) ELSE 0

RECURSIVE NatOf(_)
\* The number a string of digits writes.
NatOf(ds) ==
    IF ds = <<>> THEN 0
    ELSE 10 * NatOf(SubSeq(ds, 1, Len(ds) - 1)) + DigitValue(ds[Len(ds)])

RECURSIVE DropZeros(_)
DropZeros(ds) ==
    IF ds # <<>> /\ ds[Len(ds)] = "0" THEN DropZeros(SubSeq(ds, 1, Len(ds) - 1)) ELSE ds

\* float(s): digits with at most one "." and at least one digit; anything
\* else (a verb, an empty text) is a ValueError.
float(s) ==
    LET w == DigitRun(s, 1)
        dot == w < Len(s) /\ s[w + 1] = "."
        f == IF dot THEN DigitRun(s, w + 2) ELSE 0
        used == w + (IF dot THEN 1 + f ELSE 0)
    IN  IF used = Len(s) /\ w + f > 0
        THEN [ok |-> TRUE,
              val |-> Float(FALSE, NatOf(SubSeq(s, 1, w)),
                            [n \in 1 .. Len(DropZeros(SubSeq(s, w + 2, w + 1 + f))) |->
                                DigitValue(s[w + 1 + n])])]
        ELSE [ok |-> FALSE, val |-> Float(FALSE, 0, <<>>)]

\* A Python int, of any size: its sign and its decimal digits, the most
\* significant first and not 0; zero has no digits.
PyInt(neg, mag) == [neg |-> neg, mag |-> mag]

\* -v and abs(v) of a Python int
Neg(v) == IF v.mag = <<>> THEN v ELSE PyInt(~v.neg, v.mag)
Abs(v) == PyInt(FALSE, v.mag)

RECURSIVE DropLeadingZeros(_)
DropLeadingZeros(ds) ==
    IF ds # <<>> /\ ds[1] = "0" THEN DropLeadingZeros(Tail(ds)) ELSE ds

\* int(s): digits only; anything else is a ValueError.
int(s) ==
    IF Len(s) > 0 /\ DigitRun(s, 1) = Len(s)
    THEN [ok |-> TRUE,
          val |-> PyInt(FALSE, [n \in 1 .. Len(DropLeadingZeros(s)) |->
                                    DigitValue(DropLeadingZeros(s)[n])])]
    ELSE [ok |-> FALSE, val |-> PyInt(FALSE, <<>>)]

\* Whether text w stands in s at position pos.
At(s, pos, w) ==
    /\ pos + Len(w) - 1 <= Len(s)
    /\ \A n \in 1 .. Len(w) : s[pos + n - 1] = w[n]

\* `w in s`
Contains(s, w) == \E pos \in 1 .. Len(s) - Len(w) + 1 : At(s, pos, w)

RECURSIVE Strip(_)
\* str.strip()
Strip(s) ==
    IF s # <<>> /\ s[1] = " " THEN Strip(Tail(s))
    ELSE IF s # <<>> /\ s[Len(s)] = " " THEN Strip(SubSeq(s, 1, Len(s) - 1))
    ELSE s

(***************************************************************************)
(* Regular expressions.  A pattern is a sequence of elements                *)
(*   alt: one of the texts alts, tried in order ("a?" inside an            *)
(*        alternative is written as the alternative with a, then without)  *)
(*   num: \d+(?:\.\d+)?     int: \d+      opt: c?                          *)
(*   cls: one character of alts           any: .*                          *)
(* and cap says whether the element is a capturing group.  Matching is     *)
(* Python's: leftmost, alternatives in order, repetitions greedy, with     *)
(* backtracking.                                                           *)
(***************************************************************************)
\* The integers from hi down to lo, as a sequence.
Down(hi, lo) == [n \in 1 .. (hi - lo + 1) |-> hi - n + 1]

RECURSIVE AltEnds(_, _, _, _)
AltEnds(alts, n, s, pos) ==
    IF n > Len(alts) THEN <<>>
    ELSE (IF At(s, pos, alts[n]) THEN <<pos + Len(alts[n])>> ELSE <<>>)
         \o AltEnds(alts, n + 1, s, pos)

RECURSIVE NumEnds(_, _, _)
\* \d+(?:\.\d+)? at pos with n digits taken, then with fewer.
NumEnds(s, pos, n) ==
    IF n < 1 THEN <<>>
    ELSE LET after == pos + n
             f == IF after <= Len(s) /\ s[after] = "." THEN DigitRun(s, after + 1) ELSE 0
         IN  (IF f > 0 THEN Down(after + 1 + f, after + 2) ELSE <<>>)
             \o <<after>> \o NumEnds(s, pos, n - 1)

\* Where element e can end when it starts at pos, the preferred end first
\* (an end is the position after the last character matched).
Ends(e, s, pos) ==
    CASE e.t = "alt" -> AltEnds(e.alts, 1, s, pos)
      [] e.t = "num" -> NumEnds(s, pos, DigitRun(s, pos))
      [] e.t = "int" -> Down(pos + DigitRun(s, pos), pos + 1)
      [] e.t = "opt" -> (IF At(s, pos, e.alts[1]) THEN <<pos + 1>> ELSE <<>>) \o <<pos>>
      [] e.t = "cls" -> IF \E n \in 1 .. Len(e.alts) : At(s, pos, e.alts[n])
                        THEN <<pos + 1>> ELSE <<>>
      [] e.t = "any" -> Down(Len(s) + 1, pos)

NoMatch == [ok |-> FALSE, groups |-> <<>>]

RECURSIVE MatchFrom(_, _, _, _)
RECURSIVE FirstEnd(_, _, _, _, _, _)
\* The match of elements k.. of pattern pat at position pos of s.
MatchFrom(pat, k, s, pos) ==
    IF k > Len(pat) THEN [ok |-> TRUE, groups |-> <<>>]
    ELSE FirstEnd(pat, k, s, pos, Ends(pat[k], s, pos), 1)

\* The first of the ends from the j-th on after which the rest matches.
FirstEnd(pat, k, s, pos, ends, j) ==
    IF j > Len(ends) THEN NoMatch
    ELSE LET r == MatchFrom(pat, k + 1, s, ends[j])
         IN  IF r.ok
             THEN [ok |-> TRUE,
                   groups |-> (IF pat[k].cap THEN <<SubSeq(s, pos, ends[j] - 1)>> ELSE <<>>)
                              \o r.groups]
             ELSE FirstEnd(pat, k, s, pos, ends, j + 1)

RECURSIVE SearchFrom(_, _, _)
SearchFrom(pat, s, pos) ==
    IF pos > Len(s) + 1 THEN NoMatch
    ELSE LET r == MatchFrom(pat, 1, s, pos)
         IN  IF r.ok THEN r ELSE SearchFrom(pat, s, pos + 1)

\* pattern.search(command): the leftmost match and its groups
search(pat, s) == SearchFrom(pat, s, 1)

\* CommandParser.ACTION_PATTERNS, in declaration order
ACTION_PATTERNS ==
    <<
       [action |-> "forward", patterns |-> <<
           << [t |-> "alt", alts |-> <<<<"xiang", "qian">>, <<"qian", "jin">>, <<"wang", "qian", "zou">>, <<"chao", "qian", "zou">>>>, cap |-> TRUE],
              [t |-> "num", alts |-> <<>>, cap |-> TRUE],
              [t |-> "opt", alts |-> <<<<"mi">>>>, cap |-> FALSE] >>,
           << [t |-> "alt", alts |-> <<<<"qian", "jin">>>>, cap |-> FALSE],
              [t |-> "num", alts |-> <<>>, cap |-> TRUE],
              [t |-> "opt", alts |-> <<<<"mi">>>>, cap |-> FALSE] >>
        >>],
       [action |-> "backward", patterns |-> <<
           << [t |-> "alt", alts |-> <<<<"xiang", "hou">>, <<"hou", "tui">>, <<"wang", "hou", "zou">>>>, cap |-> TRUE],
              [t |-> "num", alts |-> <<>>, cap |-> TRUE],
              [t |-> "opt", alts |-> <<<<"mi">>>>, cap |-> FALSE] >>
        >>],
       [action |-> "turn_left", patterns |-> <<
           << [t |-> "alt", alts |-> <<<<"zuo", "zhuan">>>>, cap |-> FALSE],
              [t |-> "num", alts |-> <<>>, cap |-> TRUE],
              [t |-> "opt", alts |-> <<<<"du">>>>, cap |-> FALSE] >>,
           << [t |-> "alt", alts |-> <<<<"ni", "shi", "zhen", "zhuan">>>>, cap |-> FALSE],
              [t |-> "num", alts |-> <<>>, cap |-> TRUE],
              [t |-> "opt", alts |-> <<<<"du">>>>, cap |-> FALSE] >>
        >>],
       [action |-> "turn_right", patterns |-> <<
           << [t |-> "alt", alts |-> <<<<"you", "zhuan">>>>, cap |-> FALSE],
              [t |-> "num", alts |-> <<>>, cap |-> TRUE],
              [t |-> "opt", alts |-> <<<<"du">>>>, cap |-> FALSE] >>,
           << [t |-> "alt", alts |-> <<<<"shun", "shi", "zhen", "zhuan">>>>, cap |-> FALSE],
              [t |-> "num", alts |-> <<>>, cap |-> TRUE],
              [t |-> "opt", alts |-> <<<<"du">>>>, cap |-> FALSE] >>
        >>],
       [action |-> "stand", patterns |-> <<
           << [t |-> "alt", alts |-> <<<<"zhan", "qi">>, <<"zhan">>, <<"qi", "lai">>, <<"zhan", "li">>, <<"zhan", "qi", "lai">>>>, cap |-> TRUE] >>,
           << [t |-> "alt", alts |-> <<<<"qi", "li">>>>, cap |-> FALSE] >>
        >>],
       [action |-> "sit", patterns |-> <<
           << [t |-> "alt", alts |-> <<<<"zuo4", "xia">>>>, cap |-> FALSE] >>,
           << [t |-> "alt", alts |-> <<<<"dun", "xia">>>>, cap |-> FALSE] >>
        >>],
       [action |-> "lie_down", patterns |-> <<
           << [t |-> "alt", alts |-> <<<<"tang", "xia">>>>, cap |-> FALSE] >>,
           << [t |-> "alt", alts |-> <<<<"wo", "dao">>>>, cap |-> FALSE] >>
        >>],
       [action |-> "wave", patterns |-> <<
           << [t |-> "alt", alts |-> <<<<"hui", "shou">>>>, cap |-> FALSE] >>,
           << [t |-> "alt", alts |-> <<<<"zhao", "shou">>>>, cap |-> FALSE] >>
        >>],
       [action |-> "handshake", patterns |-> <<
           << [t |-> "alt", alts |-> <<<<"wo4", "shou">>>>, cap |-> FALSE] >>
        >>],
       [action |-> "grasp", patterns |-> <<
           << [t |-> "alt", alts |-> <<<<"zhua">>, <<"wo4">>, <<"na", "qi">>>>, cap |-> TRUE] >>
        >>],
       [action |-> "release", patterns |-> <<
           << [t |-> "alt", alts |-> <<<<"fang", "xia">>, <<"song", "kai">>, <<"shi4", "fang">>>>, cap |-> TRUE] >>
        >>],
       [action |-> "go_to", patterns |-> <<
           << [t |-> "alt", alts |-> <<<<"qu">>>>, cap |-> FALSE],
              [t |-> "int", alts |-> <<>>, cap |-> TRUE],
              [t |-> "cls", alts |-> <<<<",">>, <<"fwcomma">>>>, cap |-> FALSE],
              [t |-> "int", alts |-> <<>>, cap |-> TRUE],
              [t |-> "any", alts |-> <<>>, cap |-> FALSE],
              [t |-> "alt", alts |-> <<<<"wei", "zhi4">>>>, cap |-> FALSE] >>,
           << [t |-> "alt", alts |-> <<<<"dao3", "hang", "dao4">>>>, cap |-> FALSE],
              [t |-> "int", alts |-> <<>>, cap |-> TRUE],
              [t |-> "cls", alts |-> <<<<",">>, <<"fwcomma">>>>, cap |-> FALSE],
              [t |-> "int", alts |-> <<>>, cap |-> TRUE] >>
        >>],
       [action |-> "get_battery", patterns |-> <<
           << [t |-> "alt", alts |-> <<<<"cha", "kan">>, <<"huo", "qu3">>>>, cap |-> TRUE],
              [t |-> "alt", alts |-> <<<<"dian", "liang">>>>, cap |-> FALSE] >>
        >>],
       [action |-> "get_pose", patterns |-> <<
           << [t |-> "alt", alts |-> <<<<"huo", "qu3">>, <<"cha", "kan">>>>, cap |-> TRUE],
              [t |-> "alt", alts |-> <<<<"wei", "zhi4">>>>, cap |-> FALSE] >>
        >>],
       [action |-> "stop", patterns |-> <<
           << [t |-> "alt", alts |-> <<<<"ting", "zhi">>, <<"ting", "xia">>, <<"zan", "ting">>>>, cap |-> TRUE] >>
        >>]
    >>

\* The sequence connectives of parse() and _parse_sequence(), in the order
\* of the alternation (ran hou | zai | jie zhe).
Connectives == << <<"ran", "hou">>, <<"zai">>, <<"jie", "zhe">> >>

\* The left-hand and right-hand markers _extract_params looks for.
LeftHand == <<"zuo", "shou">>
RightHand == <<"you", "shou">>

\* The values of RobotCategory.
RobotCategories == {"quadruped", "humanoid", "manipulator"}

\* CommandParser._extract_params(action, match, original); params is a dict
\* in key order.  float() or int() of a group that is not a number raises,
\* and the bare except puts the default.
_extract_params(action, groups, original) ==
    CASE action \in {"forward", "backward"} ->
            << [key |-> "distance",
                val |-> IF float(groups[1]).ok THEN float(groups[1]).val
                        ELSE Float(FALSE, 1, <<>>)],
               [key |-> "speed", val |-> Float(FALSE, 0, <<5>>)] >>
      [] action = "turn_left" ->
            << [key |-> "angle",
                val |-> IF int(groups[1]).ok THEN int(groups[1]).val
                        ELSE PyInt(FALSE, <<4, 5>>)] >>
      [] action = "turn_right" ->
            << [key |-> "angle",
                val |-> IF int(groups[1]).ok THEN Neg(int(groups[1]).val)
                        ELSE PyInt(TRUE, <<4, 5>>)] >>
      [] action = "go_to" ->
            IF Len(groups) >= 2 /\ float(groups[1]).ok /\ float(groups[2]).ok
            THEN << [key |-> "position",
                     val |-> <<float(groups[1]).val, float(groups[2]).val,
                               Float(FALSE, 0, <<>>)>>] >>
            ELSE <<>>
      [] action \in {"grasp", "release"} ->
            << [key |-> "arm",
                val |-> IF Contains(original, LeftHand) THEN "left"
                        ELSE IF Contains(original, RightHand) THEN "right"
                        ELSE "right"] >>
      [] OTHER -> <<>>

ParsedCommand(raw, action, params, robot_type, confidence) ==
    IF robot_type \in RobotCategories
    THEN [kind |-> "ok", raw_command |-> raw, action |-> action, params |-> params,
          robot_category |-> robot_type, confidence |-> confidence]
    ELSE [kind |-> "raise", exc |-> "ValueError"]

RecursionError == [kind |-> "raise", exc |-> "RecursionError"]

RECURSIVE FirstPattern(_, _, _)
\* The first pattern of pats, from the n-th on, that is found in command.
FirstPattern(pats, n, command) ==
    IF n > Len(pats) THEN NoMatch
    ELSE LET r == search(pats[n], command)
         IN  IF r.ok THEN r ELSE FirstPattern(pats, n + 1, command)

RECURSIVE single_command_confident(_, _, _)
\* single_command() reporting an unmatched text with a match's confidence
single_command_confident(command, robot_type, a) ==
    IF a > Len(ACTION_PATTERNS)
    THEN ParsedCommand(command, "unknown", <<>>, robot_type, Float(FALSE, 0, <<9>>))
    ELSE LET r == FirstPattern(ACTION_PATTERNS[a].patterns, 1, command)
         IN  IF r.ok
             THEN ParsedCommand(command, ACTION_PATTERNS[a].action,
                                _extract_params(ACTION_PATTERNS[a].action, r.groups, command),
                                robot_type, Float(FALSE, 0, <<9>>))
             ELSE single_command_confident(command, robot_type, a + 1)

RECURSIVE single_command_reversed(_, _, _)
\* single_command() trying the actions from the last declared to the first
single_command_reversed(command, robot_type, a) ==
    IF a > Len(ACTION_PATTERNS)
    THEN ParsedCommand(command, "unknown", <<>>, robot_type, Float(FALSE, 0, <<>>))
    ELSE LET e == ACTION_PATTERNS[Len(ACTION_PATTERNS) + 1 - a]
             r == FirstPattern(e.patterns, 1, command)
         IN  IF r.ok
             THEN ParsedCommand(command, e.action,
                                _extract_params(e.action, r.groups, command),
                                robot_type, Float(FALSE, 0, <<9>>))
             ELSE single_command_reversed(command, robot_type, a + 1)

RECURSIVE single_command(_, _, _)
\* parse(), lines 112-131: the actions in declaration order from the a-th on
single_command(command, robot_type, a) ==
    IF a > Len(ACTION_PATTERNS)
    THEN ParsedCommand(command, "unknown", <<>>, robot_type, Float(FALSE, 0, <<>>))
    ELSE LET r == FirstPattern(ACTION_PATTERNS[a].patterns, 1, command)
         IN  IF r.ok
             THEN ParsedCommand(command, ACTION_PATTERNS[a].action,
                                _extract_params(ACTION_PATTERNS[a].action, r.groups, command),
                                robot_type, Float(FALSE, 0, <<9>>))
             ELSE single_command(command, robot_type, a + 1)

RECURSIVE ConnectiveRun(_, _, _)
\* (ran hou|zai|jie zhe)+ at pos, greedy: where the run ends and the last
\* connective of it (the text of the group), given the last one so far.
ConnectiveRun(s, pos, last) ==
    LET hit == {n \in 1 .. Len(Connectives) : At(s, pos, Connectives[n])}
    IN  IF hit = {} THEN [end |-> pos, group |-> last]
        ELSE LET n == CHOOSE n \in hit : \A m \in hit : n <= m
             IN  ConnectiveRun(s, pos + Len(Connectives[n]), Connectives[n])

RECURSIVE SplitFrom(_, _, _)
\* re.split with a capturing group: the texts between the matches, and after
\* each match the text of its group.  from is where the current piece starts.
SplitFrom(s, from, pos) ==
    IF pos > Len(s) THEN <<SubSeq(s, from, Len(s))>>
    ELSE LET r == ConnectiveRun(s, pos, <<>>)
         IN  IF r.end = pos THEN SplitFrom(s, from, pos + 1)
             ELSE <<SubSeq(s, from, pos - 1), r.group>> \o SplitFrom(s, r.end, r.end)

\* re.split(r"(ran hou|zai|jie zhe)+", command)
split(command) == SplitFrom(command, 1, 1)

RECURSIVE parse_frames(_, _, _)
RECURSIVE _parse_sequence(_, _, _)
RECURSIVE sequence_tasks(_, _, _, _, _)

\* CommandParser.parse with `frames` stack frames left before the interpreter
\* raises RecursionError.
parse_frames(command0, robot_type, frames) ==
    LET command == Strip(command0)
    IN  IF frames < 1 THEN RecursionError
        ELSE IF \E n \in 1 .. Len(Connectives) : Contains(command, Connectives[n])
        THEN _parse_sequence(command, robot_type, frames - 1)
        ELSE single_command(command, robot_type, 1)

\* CommandParser._parse_sequence
_parse_sequence(command, robot_type, frames) ==
    IF frames < 1 THEN RecursionError
    ELSE LET r == sequence_tasks(split(command), 1, robot_type, frames - 1, <<>>)
         IN  IF r.kind = "raise" THEN r
             ELSE ParsedCommand(command, "sequence",
                                << [key |-> "tasks", val |-> r.tasks] >>,
                                robot_type, Float(FALSE, 0, <<8, 5>>))

\* The loop of _parse_sequence over parts, from the n-th on.
sequence_tasks(parts, n, robot_type, frames, tasks) ==
    IF n > Len(parts) THEN [kind |-> "ok", tasks |-> tasks]
    ELSE IF Strip(parts[n]) = <<>>
    THEN sequence_tasks(parts, n + 1, robot_type, frames, tasks)
    ELSE LET r == parse_frames(Strip(parts[n]), robot_type, frames)
         IN  IF r.kind = "raise" THEN r
             ELSE IF r.action # "unknown"
             THEN sequence_tasks(parts, n + 1, robot_type, frames,
                                 Append(tasks, [action |-> r.action, params |-> r.params]))
             ELSE sequence_tasks(parts, n + 1, robot_type, frames, tasks)

\* CommandParser.parse(command, robot_type)
parse(command, robot_type) == parse_frames(command, robot_type, MaxDepth)

(***************************************************************************)
(* The parser applied to command texts.                                    *)
(***************************************************************************)
RECURSIVE Concat(_)
\* The texts of a sequence joined.
Concat(ws) == IF ws = <<>> THEN <<>> ELSE Head(ws) \o Concat(Tail(ws))

\* The words commands start with: every alternative of every pattern's first
\* literal, and two that are in no pattern.
Verbs ==
    { <<"xiang", "qian">>, <<"qian", "jin">>, <<"wang", "qian", "zou">>,
      <<"chao", "qian", "zou">>, <<"xiang", "hou">>, <<"hou", "tui">>,
      <<"wang", "hou", "zou">>, <<"zuo", "zhuan">>, <<"ni", "shi", "zhen", "zhuan">>,
      <<"you", "zhuan">>, <<"shun", "shi", "zhen", "zhuan">>,
      <<"zhan">>, <<"zhan", "qi">>, <<"qi", "lai">>, <<"zhan", "li">>,
      <<"zhan", "qi", "lai">>, <<"qi", "li">>, <<"zuo4", "xia">>, <<"dun", "xia">>,
      <<"tang", "xia">>, <<"wo", "dao">>, <<"hui", "shou">>, <<"zhao", "shou">>,
      <<"wo4", "shou">>, <<"zhua">>, <<"wo4">>, <<"na", "qi">>,
      <<"zuo", "shou", "zhua">>, <<"you", "shou", "fang", "xia">>,
      <<"fang", "xia">>, <<"song", "kai">>, <<"shi4", "fang">>,
      <<"qu">>, <<"dao3", "hang", "dao4">>,
      <<"cha", "kan", "dian", "liang">>, <<"huo", "qu3", "dian", "liang">>,
      <<"huo", "qu3", "wei", "zhi4">>, <<"cha", "kan", "wei", "zhi4">>,
      <<"ting", "zhi">>, <<"ting", "xia">>, <<"zan", "ting">>,
      <<"nin", "hao">>, <<>> }

\* What follows the word: nothing, a number, a number and a unit, a position.
Arguments ==
    { <<>>, <<"2">>, <<"2", "mi">>, <<"2", ".", "5">>, <<"2", ".", "5", "0", "mi">>,
      <<"4", "5">>, <<"9", "0", "du">>, <<"4", ".", "5", "du">>, <<" ", "2">>,
      <<"1", ",", "2">>, <<"1", "fwcomma", "2", "de", "wei", "zhi4">> }

\* Commands of one word and its argument, as typed and with blanks around.
SingleTexts ==
    {v \o a : v \in Verbs, a \in Arguments}
    \cup {<<" ">> \o v \o a \o <<" ">> : v \in Verbs, a \in {<<>>, <<"2">>}}

\* What texts with connectives are made of.
Parts ==
    { <<"zuo", "zhuan", "4", "5">>, <<"you", "zhuan", "9", "0">>,
      <<"qian", "jin", "2", "mi">>, <<"zhan", "qi", "lai">>, <<"nin", "hao">>,
      <<" ">>, <<"ran", "hou">>, <<"zai">>, <<"jie", "zhe">> }

RECURSIVE PartSeqs(_)
\* The sequences of at most n parts.
PartSeqs(n) ==
    IF n = 0 THEN {<<>>}
    ELSE PartSeqs(n - 1) \cup {Append(ps, p) : ps \in PartSeqs(n - 1), p \in Parts}

SequenceTexts == {Concat(ps) : ps \in PartSeqs(MaxParts)}

Texts == SingleTexts \cup SequenceTexts

\* The ROBOT_TYPE of the adapters execute() passes to parse().
RobotTypes == {"quadruped", "humanoid"}

ParseInit ==
    /\ text \in Texts
    /\ parsed = [kind |-> "none"]

\* A call of parse(text, robot_type).
ParseCall(robot_type) ==
    /\ parsed.kind = "none"
    /\ parsed' = parse(text, robot_type)
    /\ UNCHANGED <<text, regVars, concVars, execVars, chatVars>>

ParseNext == \E robot_type \in RobotTypes : ParseCall(robot_type)

InitParse == RegInit /\ ConcIdle /\ ParseInit /\ ExecIdle /\ ChatIdle

SpecParse == InitParse /\ [][ParseNext]_vars

(***************************************************************************)
(* Properties of the parser.                                               *)
(***************************************************************************)
\* parse() has returned or raised.
Parsed == parsed.kind # "none"

\* A text that parses, alone, to an action: no connective in it and a pattern
\* of some action found in it.
Recognisable(s) ==
    /\ \A n \in 1 .. Len(Connectives) : ~Contains(s, Connectives[n])
    /\ single_command(Strip(s), "quadruped", 1).action # "unknown"

\* The recognisable commands among the parts of the command texts.
RecognisableParts == {p \in Parts : Recognisable(p)}

\* The entry of a sequence's task list for the command s.
TaskOf(s) ==
    [action |-> single_command(Strip(s), "quadruped", 1).action,
     params |-> single_command(Strip(s), "quadruped", 1).params]

\* C9: a text of two recognisable commands joined by a sequence connective
\* parses to action "sequence" whose tasks are exactly the first command's
\* action and parameters, then the second's.
C9_TwoCommandsParseToSequence ==
    Parsed =>
        \A a, b \in RecognisableParts, n \in 1 .. Len(Connectives) :
            text = a \o Connectives[n] \o b
            => /\ parsed.kind = "ok"
               /\ parsed.action = "sequence"
               /\ DictHas(parsed.params, "tasks")
               /\ DictGet(parsed.params, "tasks") = <<TaskOf(a), TaskOf(b)>>

\* The forward phrasings of the pattern table: the verbs of its two patterns.
ForwardVerbs ==
    UNION {{ACTION_PATTERNS[1].patterns[p][1].alts[n] :
                n \in 1 .. Len(ACTION_PATTERNS[1].patterns[p][1].alts)} :
            p \in 1 .. Len(ACTION_PATTERNS[1].patterns)}

\* The numbers among the arguments of the command texts.
Numbers == {a \in Arguments : float(a).ok}

\* C10: a forward command carrying a number parses to action "forward" with
\* confidence 0.9 and the number as distance, for every forward phrasing.
C10_ForwardCarriesItsNumber ==
    Parsed =>
        \A v \in ForwardVerbs, a \in Numbers, unit \in {<<>>, <<"mi">>} :
            text = v \o a \o unit
            => /\ parsed.kind = "ok"
               /\ parsed.action = "forward"
               /\ parsed.confidence = Float(FALSE, 0, <<9>>)
               /\ DictHas(parsed.params, "distance")
               /\ DictGet(parsed.params, "distance") = float(a).val

\* C11: a forward phrasing with no number after it parses to action
\* "forward" with the distance defaulted to 1.0.
C11_BareForwardDefaultsDistance ==
    Parsed =>
        \A v \in ForwardVerbs :
            text = v
            => /\ parsed.kind = "ok"
               /\ parsed.action = "forward"
               /\ DictHas(parsed.params, "distance")
               /\ DictGet(parsed.params, "distance") = Float(FALSE, 1, <<>>)

\* No sequence connective stands in s.
NoConnective(s) == \A n \in 1 .. Len(Connectives) : ~Contains(s, Connectives[n])

\* The actions, by their place in the pattern table, that have a pattern
\* found in s.
MatchingActions(s) ==
    {a \in 1 .. Len(ACTION_PATTERNS) :
        \E p \in 1 .. Len(ACTION_PATTERNS[a].patterns) :
            search(ACTION_PATTERNS[a].patterns[p], s).ok}

\* A confidence within [0,1].
InUnitInterval(f) == ~f.neg /\ (f.whole = 0 \/ (f.whole = 1 /\ f.frac = <<>>))

\* C12: a text with no connective in which no pattern is found parses to
\* action "unknown", confidence 0.0 and no parameters; and every result has
\* action "unknown" exactly when its confidence is 0.0, the confidence
\* lying within [0,1].
C12_UnmatchedIsUnknownAtZero ==
    Parsed =>
        /\ (NoConnective(text) /\ MatchingActions(text) = {})
           => /\ parsed.kind = "ok"
              /\ parsed.action = "unknown"
              /\ parsed.confidence = Float(FALSE, 0, <<>>)
              /\ parsed.params = <<>>
        /\ parsed.kind = "ok"
           => /\ (parsed.action = "unknown") <=> (parsed.confidence = Float(FALSE, 0, <<>>))
              /\ InUnitInterval(parsed.confidence)

\* parse() has returned "unknown" for a text of some characters in which no
\* pattern is found.
C12_UnmatchedTextParsed ==
    /\ Parsed
    /\ Strip(text) # <<>>
    /\ NoConnective(text)
    /\ MatchingActions(text) = {}
    /\ parsed.kind = "ok"
    /\ parsed.action = "unknown"

\* C13: a text with no connective parses to the first action, in the order
\* of the pattern table, that has a pattern found in the text, whatever
\* later actions have one too.
C13_FirstDeclaredActionWins ==
    (Parsed /\ NoConnective(text) /\ MatchingActions(text) # {})
    => /\ parsed.kind = "ok"
       /\ \A a \in MatchingActions(text) :
            (\A b \in MatchingActions(text) : a <= b)
            => parsed.action = ACTION_PATTERNS[a].action

\* parse() has returned for a handshake phrase, in which the handshake
\* pattern and the later-declared grasp pattern are both found.
C13_HandshakeBeforeGrasp ==
    /\ Parsed
    /\ NoConnective(text)
    /\ \E a, b \in MatchingActions(text) :
        /\ a < b
        /\ ACTION_PATTERNS[a].action = "handshake"
        /\ ACTION_PATTERNS[b].action = "grasp"
    /\ parsed.kind = "ok"
    /\ parsed.action = "handshake"

(***************************************************************************)
(* The adapters (robot_abc.py, adapters/unitree_adapter.py).  A code or a  *)
(* class name is written as one token, and a message as the sequence of    *)
(* its literal pieces and the values formatted into it.                    *)
(***************************************************************************)
\* The adapter instances constructed in one run.
MaxCreated == 2
\* The sub-tasks of a dispatched sequence.
MaxTasks == 3

\* The adapter classes: the class each extends, the class attributes each
\* declares itself and the methods each defines itself.  CustomAdapter is an
\* adapter a caller writes against RobotBase and registers: it defines the
\* abstract methods and inherits the rest.
AdapterClasses ==
    << [key |-> "RobotBase",
        val |-> [base |-> "object",
                 attrs |-> << [key |-> "ROBOT_CODE", val |-> ""],
                              [key |-> "ROBOT_NAME", val |-> ""],
                              [key |-> "BRAND", val |-> ""],
                              [key |-> "ROBOT_TYPE", val |-> "quadruped"] >>,
                 methods |-> {"move_arm", "grasp", "release", "play_action",
                              "get_info"}]],
       [key |-> "UnitreeGO2Adapter",
        val |-> [base |-> "RobotBase",
                 attrs |-> << [key |-> "ROBOT_CODE", val |-> "unitree_go2"],
                              [key |-> "ROBOT_NAME", val |-> "Unitree GO2"],
                              [key |-> "BRAND", val |-> "Unitree"],
                              [key |-> "ROBOT_TYPE", val |-> "quadruped"] >>,
                 methods |-> {"connect", "disconnect", "get_state", "stand", "sit",
                              "stop", "move", "go_to", "play_action"}]],
       [key |-> "UnitreeG1Adapter",
        val |-> [base |-> "RobotBase",
                 attrs |-> << [key |-> "ROBOT_CODE", val |-> "unitree_g1"],
                              [key |-> "ROBOT_NAME", val |-> "Unitree G1"],
                              [key |-> "BRAND", val |-> "Unitree"],
                              [key |-> "ROBOT_TYPE", val |-> "humanoid"] >>,
                 methods |-> {"connect", "disconnect", "get_state", "stand", "sit",
                              "stop", "move", "go_to", "move_arm", "grasp",
                              "release", "play_action"}]],
       [key |-> "UnitreeGO1Adapter",
        val |-> [base |-> "UnitreeGO2Adapter",
                 attrs |-> << [key |-> "ROBOT_CODE", val |-> "unitree_go1"],
                              [key |-> "ROBOT_NAME", val |-> "Unitree GO1"] >>,
                 methods |-> {}]],
       [key |-> "UnitreeH1Adapter",
        val |-> [base |-> "UnitreeG1Adapter",
                 attrs |-> << [key |-> "ROBOT_CODE", val |-> "unitree_h1"],
                              [key |-> "ROBOT_NAME", val |-> "Unitree H1"] >>,
                 methods |-> {}]],
       [key |-> "CustomAdapter",
        val |-> [base |-> "RobotBase",
                 attrs |-> << [key |-> "ROBOT_CODE", val |-> "custom_bot"],
                              [key |-> "ROBOT_NAME", val |-> "Custom Bot"] >>,
                 methods |-> {"connect", "disconnect", "get_state", "stand", "sit",
                              "stop", "move", "go_to"}]] >>

RECURSIVE ClassAttr_inherited_first(_, _)
\* Attribute lookup that prefers what the base class declares
ClassAttr_inherited_first(cls, attr) ==
    LET c == DictGet(AdapterClasses, cls)
    IN  IF c.base # "object" THEN ClassAttr_inherited_first(c.base, attr)
        ELSE DictGet(c.attrs, attr)

RECURSIVE ClassAttr(_, _)
\* cls.attr: the class's own declaration, else its base's
ClassAttr(cls, attr) ==
    LET c == DictGet(AdapterClasses, cls)
    IN  IF DictHas(c.attrs, attr) THEN DictGet(c.attrs, attr)
        ELSE ClassAttr(c.base, attr)

RECURSIVE Implementer(_, _)
\* The class whose definition of method an instance of cls runs.
Implementer(cls, method) ==
    LET c == DictGet(AdapterClasses, cls)
    IN  IF method \in c.methods THEN cls
        ELSE IF c.base = "object" THEN "object"
        ELSE Implementer(c.base, method)

\* What create() passes on to the adapter's constructor (**kwargs).  The
\* shipped adapters take no notice of it; CustomAdapter takes the one method
\* of its own that is to go wrong and how: with a failed result (connect():
\* False) or with an exception.
NoFault == [method |-> "none", how |-> "ok"]
Faults ==
    {NoFault} \cup {[method |-> m, how |-> h] :
                        m \in {"connect", "move", "stop", "stand"},
                        h \in {"fail", "raise"}}

\* RobotBase.__init__: a new instance, not connected.  id tells the
\* instances apart.
NewAdapter(cls, id, kwargs) ==
    [cls |-> cls, id |-> id, connected |-> FALSE,
     fault |-> IF cls = "CustomAdapter" THEN kwargs ELSE NoFault]

TaskResult(success, message) == [success |-> success, message |-> message]

\* RobotState, the fields the dispatcher reads.
RobotState(position, battery_level) ==
    [position |-> position, battery_level |-> battery_level]

\* How a call ends: with a value, or with an exception of some text.
Returned(v) == [kind |-> "return", val |-> v]
Raises(e) == [kind |-> "raise", error |-> e]

\* The action table of UnitreeGO2Adapter.play_action
GO2Actions ==
    << [key |-> "wave", val |-> "Wave hand"], [key |-> "handshake", val |-> "Handshake"],
       [key |-> "dance", val |-> "Dance"] >>

\* The methods of UnitreeGO2Adapter
UnitreeGO2Adapter_call(method, args) ==
    CASE method = "connect" -> Returned(TRUE)
      [] method = "get_state" ->
            Returned(RobotState(<<Float(FALSE, 0, <<>>), Float(FALSE, 0, <<>>),
                                  Float(FALSE, 0, <<4>>)>>, Float(FALSE, 85, <<>>)))
      [] method = "stand" -> Returned(TaskResult(TRUE, <<"Stand command executed">>))
      [] method = "sit" -> Returned(TaskResult(TRUE, <<"Sit command executed">>))
      [] method = "stop" -> Returned(TaskResult(TRUE, <<"Stop command executed">>))
      [] method = "move" ->
            Returned(TaskResult(TRUE, <<"Move: vx=", args[1], ", vy=", args[2],
                                        ", yaw_rate=", args[3]>>))
      [] method = "go_to" -> Returned(TaskResult(TRUE, <<"Navigate to ", args[1]>>))
      [] method = "play_action" ->
            IF DictHas(GO2Actions, args[1])
            THEN Returned(TaskResult(TRUE, <<"Play action: ", DictGet(GO2Actions, args[1])>>))
            ELSE Returned(TaskResult(FALSE, <<"Unknown action: ", args[1]>>))

\* The methods of UnitreeG1Adapter
UnitreeG1Adapter_call(method, args) ==
    CASE method = "connect" -> Returned(TRUE)
      [] method = "get_state" ->
            Returned(RobotState(<<Float(FALSE, 0, <<>>), Float(FALSE, 0, <<>>),
                                  Float(FALSE, 0, <<>>)>>, Float(FALSE, 90, <<>>)))
      [] method = "stand" -> Returned(TaskResult(TRUE, <<"Stand command executed">>))
      [] method = "sit" -> Returned(TaskResult(TRUE, <<"Sit command executed">>))
      [] method = "stop" -> Returned(TaskResult(TRUE, <<"Stop command executed">>))
      [] method = "move" ->
            Returned(TaskResult(TRUE, <<"Move: vx=", args[1], ", vy=", args[2]>>))
      [] method = "go_to" -> Returned(TaskResult(TRUE, <<"Navigate to ", args[1]>>))
      [] method = "play_action" ->
            Returned(TaskResult(TRUE, <<"Play action: ", args[1]>>))

\* The methods RobotBase defines itself, on an instance of cls
RobotBase_call(cls, method, args) ==
    CASE method = "play_action" ->
            Returned(TaskResult(FALSE, <<"Action ", args[1], " not defined">>))
      [] method = "grasp" ->
            Returned(TaskResult(FALSE, <<ClassAttr(cls, "ROBOT_CODE"),
                                         " does not support grasping">>))
      [] method = "release" ->
            Returned(TaskResult(FALSE, <<ClassAttr(cls, "ROBOT_CODE"),
                                         " does not support releasing">>))

\* The methods of CustomAdapter, on an instance made to go wrong as fault says
CustomAdapter_call(fault, method, args) ==
    LET o == IF fault.method = method THEN fault.how ELSE "ok"
    IN  CASE o = "raise" -> Raises(<<method, " failed">>)
          [] o # "raise" /\ method = "connect" -> Returned(o = "ok")
          [] o # "raise" /\ method = "get_state" ->
                Returned(RobotState(<<Float(FALSE, 0, <<>>), Float(FALSE, 0, <<>>),
                                      Float(FALSE, 0, <<>>)>>, Float(FALSE, 50, <<>>)))
          [] OTHER -> Returned(TaskResult(o = "ok", <<method, " ", o>>))

\* robot.method(*args): an attribute of None is an AttributeError, else the
\* definition the instance's class resolves to runs.
Invoke(robot, method, args) ==
    IF robot = None
    THEN Raises(<<"'NoneType' object has no attribute '", method, "'">>)
    ELSE LET impl == Implementer(robot.cls, method)
         IN  CASE impl = "UnitreeGO2Adapter" -> UnitreeGO2Adapter_call(method, args)
               [] impl = "UnitreeG1Adapter" -> UnitreeG1Adapter_call(method, args)
               [] impl = "CustomAdapter" -> CustomAdapter_call(robot.fault, method, args)
               [] impl = "RobotBase" -> RobotBase_call(robot.cls, method, args)

\* An angle beyond what time.sleep() can wait for.
BigAngle == <<"9", "9", "9", "9", "9", "9", "9", "9", "9", "9", "9", "9", "9">>

\* The commands execute() is given: a phrase of every action and one of
\* none with a number after it, and phrases with no number, with an angle
\* too large, with a position, in a sequence and with blanks around.
ExecVerbs ==
    { <<"qian", "jin">>, <<"hou", "tui">>, <<"zuo", "zhuan">>, <<"you", "zhuan">>,
      <<"zhan", "qi", "lai">>, <<"zuo4", "xia">>, <<"tang", "xia">>,
      <<"hui", "shou">>, <<"wo4", "shou">>, <<"zhua">>, <<"fang", "xia">>,
      <<"cha", "kan", "dian", "liang">>, <<"huo", "qu3", "wei", "zhi4">>,
      <<"ting", "zhi">>, <<"nin", "hao">> }

Commands ==
    {v \o <<"4", "5">> : v \in ExecVerbs}
    \cup { <<"qian", "jin">>, <<"zuo", "zhuan">>,
           <<"zuo", "zhuan">> \o BigAngle, <<"you", "zhuan">> \o BigAngle,
           <<"qu", "1", ",", "2", "de", "wei", "zhi4">>,
           <<"zuo", "zhuan", "4", "5", "ran", "hou", "you", "zhuan", "9", "0">>,
           <<" ", "ting", "zhi", " ">> }

\* parse() of every command, computed once.
ParseTable == [c \in Commands |-> [t \in RobotCategories |-> parse(c, t)]]

\* _parser.parse(command, robot_type)
_parser_parse(command, robot_type) ==
    IF command \in Commands /\ robot_type \in RobotCategories
    THEN ParseTable[command][robot_type]
    ELSE parse(command, robot_type)

(***************************************************************************)
(* The command dispatcher (skill.py).  A result is a dict in key order; an *)
(* operator returns it with the adapter calls it made.                     *)
(***************************************************************************)
Zero == PyInt(FALSE, <<>>)
Half == Float(FALSE, 0, <<5>>)

\* -s of a float
NegF(f) == IF f.whole = 0 /\ f.frac = <<>> THEN f ELSE Float(~f.neg, f.whole, f.frac)

\* d.get(k, default)
DictGetOr(d, k, default) == IF DictHas(d, k) THEN DictGet(d, k) ELSE default

\* One entry of robot_calls: the sub-task (by number and action) that made
\* the call, the method, its arguments and how the call ended.
Called(task, action, method, args, r) ==
    [task |-> task, action |-> action, method |-> method, args |-> args, r |-> r]

RECURSIVE LexGeq(_, _)
\* a >= b for digit sequences of one length
LexGeq(a, b) ==
    \/ a = <<>>
    \/ a[1] > b[1]
    \/ a[1] = b[1] /\ LexGeq(Tail(a), Tail(b))

\* |v| >= |w| for Python ints
MagGeq(v, w) ==
    \/ Len(v.mag) > Len(w.mag)
    \/ Len(v.mag) = Len(w.mag) /\ LexGeq(v.mag, w.mag)

\* The least angle whose wait, angle / 45 seconds, is more than the
\* 2^63 - 1 nanoseconds time.sleep() can take: 415051741659 degrees.
SleepLimit == PyInt(FALSE, <<4, 1, 5, 0, 5, 1, 7, 4, 1, 6, 5, 9>>)

\* time.sleep(abs(angle) / 45)
sleep(angle) ==
    IF MagGeq(angle, SleepLimit)
    THEN Raises(<<"timestamp out of range for platform time_t">>)
    ELSE Returned("None")

\* The seconds abs(angle) / 45, as the quotient
Seconds(angle) == [num |-> Abs(angle), den |-> 45]

\* {"success": False, "error": str(e)}
Failure(e) == << [key |-> "success", val |-> FALSE], [key |-> "error", val |-> e] >>

\* {"success": result.success, "message": result.message, "action": action}
Outcome(res, action) ==
    << [key |-> "success", val |-> res.success],
       [key |-> "message", val |-> res.message],
       [key |-> "action", val |-> action] >>

\* Line 141 on the result r of robot.method(*args); an exception goes to
\* line 144.
DirectResult(task, action, method, args, r) ==
    [ret |-> IF r.kind = "raise" THEN Failure(r.error) ELSE Outcome(r.val, action),
     calls |-> <<Called(task, action, method, args, r)>>]

\* result = robot.method(*args), then line 141
Direct(robot, task, action, method, args) ==
    DirectResult(task, action, method, args, Invoke(robot, method, args))

\* A turn whose move(), time.sleep() and stop() end as m, w and s: each is
\* reached only if the one before returned; an exception of any of the three
\* goes to line 144, and after the three the result is the dispatcher's own.
TurnResult(task, action, angle, yaw, word, m, w, s) ==
    LET cm == Called(task, action, "move", <<Zero, Zero, yaw>>, m)
        cw == Called(task, action, "sleep", <<Seconds(angle)>>, w)
        cs == Called(task, action, "stop", <<>>, s)
    IN  IF m.kind = "raise" THEN [ret |-> Failure(m.error), calls |-> <<cm>>]
        ELSE IF w.kind = "raise" THEN [ret |-> Failure(w.error), calls |-> <<cm, cw>>]
        ELSE IF s.kind = "raise" THEN [ret |-> Failure(s.error), calls |-> <<cm, cw, cs>>]
        ELSE [ret |-> Outcome(TaskResult(TRUE, <<word, angle, " degrees">>), action),
              calls |-> <<cm, cw, cs>>]

\* The turn branches: move(0, 0, yaw), time.sleep(abs(angle) / 45), stop()
Turn(robot, task, action, angle, yaw, word) ==
    TurnResult(task, action, angle, yaw, word,
               Invoke(robot, "move", <<Zero, Zero, yaw>>), sleep(angle),
               Invoke(robot, "stop", <<>>))

\* The dict a sensor branch makes of the state r that get_state() returned
SensorResult(task, action, key, r) ==
    [ret |-> IF r.kind = "raise" THEN Failure(r.error)
             ELSE << [key |-> "success", val |-> TRUE],
                     [key |-> key,
                      val |-> IF key = "battery" THEN <<r.val.battery_level, "%">>
                              ELSE r.val.position] >>,
     calls |-> <<Called(task, action, "get_state", <<>>, r)>>]

\* The sensor branches: state = robot.get_state(), then a dict of their own
Sensor(robot, task, action, key) ==
    SensorResult(task, action, key, Invoke(robot, "get_state", <<>>))

\* _execute_single(action, params) on robot, as sub-task number task: the
\* result dict and the calls made.
_execute_single(action, params, robot, task) ==
    CASE action = "forward" ->
            Direct(robot, task, action, "move",
                   <<DictGetOr(params, "speed", Half), Zero, Zero>>)
      [] action = "backward" ->
            Direct(robot, task, action, "move",
                   <<NegF(DictGetOr(params, "speed", Half)), Zero, Zero>>)
      [] action = "turn_left" ->
            Turn(robot, task, action,
                 DictGetOr(params, "angle", PyInt(FALSE, <<4, 5>>)), Half, "Turned left ")
      [] action = "turn_right" ->
            Turn(robot, task, action,
                 Abs(DictGetOr(params, "angle", PyInt(FALSE, <<4, 5>>))), NegF(Half),
                 "Turned right ")
      [] action = "stand" -> Direct(robot, task, action, "stand", <<>>)
      [] action = "sit" -> Direct(robot, task, action, "sit", <<>>)
      [] action = "lie_down" -> Direct(robot, task, action, "play_action", <<"lie_down">>)
      [] action = "wave" -> Direct(robot, task, action, "play_action", <<"wave">>)
      [] action = "handshake" -> Direct(robot, task, action, "play_action", <<"handshake">>)
      [] action = "stop" -> Direct(robot, task, action, "stop", <<>>)
      [] action = "go_to" ->
            Direct(robot, task, action, "go_to",
                   <<DictGetOr(params, "position", <<Zero, Zero, Zero>>)>>)
      [] action = "get_battery" -> Sensor(robot, task, action, "battery")
      [] action = "get_pose" -> Sensor(robot, task, action, "position")
      [] OTHER ->
            [ret |-> Outcome(TaskResult(FALSE, <<"Unknown action: ", action>>), action),
             calls |-> <<>>]

\* any(r.get("success", False) for r in results)
any_success(results) ==
    \E n \in 1 .. Len(results) : DictGetOr(results[n], "success", FALSE)

\* all(r.get("success", False) for r in results)
all_success(results) ==
    \A n \in 1 .. Len(results) : DictGetOr(results[n], "success", FALSE)

\* r.get("success", False) of the sub-task result last appended
LastSucceeded(rs) == rs = <<>> \/ DictGetOr(rs[Len(rs)].ret, "success", FALSE)

RECURSIVE sequence_results_stopping(_, _, _, _)
\* The loop of _execute_sequence leaving at the first failed sub-task
sequence_results_stopping(tasks, n, robot, rs) ==
    IF n > Len(tasks) \/ ~LastSucceeded(rs) THEN rs
    ELSE sequence_results_stopping(
             tasks, n + 1, robot,
             Append(rs, _execute_single(tasks[n].action, tasks[n].params, robot, n)))

RECURSIVE sequence_results(_, _, _, _)
\* The loop of _execute_sequence over tasks, from the n-th on: rs is what
\* _execute_single gave for the sub-tasks before, in order.
sequence_results(tasks, n, robot, rs) ==
    IF n > Len(tasks) THEN rs
    ELSE sequence_results(
             tasks, n + 1, robot,
             Append(rs, _execute_single(tasks[n].action, tasks[n].params, robot, n)))

RECURSIVE CallsOf(_)
\* The adapter calls of the sub-tasks, in the order made
CallsOf(rs) == IF rs = <<>> THEN <<>> ELSE rs[1].calls \o CallsOf(Tail(rs))

\* The dict _execute_sequence returns for the sub-task results rs
SequenceResult(tasks, rs) ==
    [ret |-> << [key |-> "success",
                 val |-> all_success([n \in 1 .. Len(rs) |-> rs[n].ret])],
                [key |-> "tasks", val |-> tasks],
                [key |-> "results", val |-> [n \in 1 .. Len(rs) |-> rs[n].ret]] >>,
     calls |-> CallsOf(rs)]

\* _execute_sequence(tasks)
_execute_sequence(tasks, robot) ==
    SequenceResult(tasks, sequence_results(tasks, 1, robot, <<>>))

\* What execute() returns when the dispatcher gave q
Dispatched(q) == [r |-> Returned(q.ret), calls |-> q.calls]

\* {"success": False, "error": "Initialize robot first: ..."}
NotInitialized ==
    [r |-> Returned(Failure(<<"Initialize robot first: initialize('unitree_go2', '192.168.12.1')">>)),
     calls |-> <<>>]

\* Lines 63-76 handing an unknown command to the dispatcher
after_parse_dispatching_unknown(command, robot, p) ==
    IF p.kind = "raise" THEN [r |-> Raises(<<p.exc>>), calls |-> <<>>]
    ELSE IF p.action = "sequence"
    THEN Dispatched(_execute_sequence(DictGetOr(p.params, "tasks", <<>>), robot))
    ELSE Dispatched(_execute_single(p.action, p.params, robot, 1))

\* execute(command) handing an unknown command to the dispatcher
execute_dispatching_unknown(command, robot) ==
    IF robot = None THEN NotInitialized
    ELSE after_parse_dispatching_unknown(
             command, robot, _parser_parse(command, ClassAttr(robot.cls, "ROBOT_TYPE")))

\* Lines 63-76 of execute(), p being what parse() returned or raised: an
\* exception of parse() leaves execute(), nothing catches it.
after_parse(command, robot, p) ==
    IF p.kind = "raise" THEN [r |-> Raises(<<p.exc>>), calls |-> <<>>]
    ELSE IF p.action = "unknown"
    THEN [r |-> Returned(Failure(<<"Unknown command: ">> \o command)), calls |-> <<>>]
    ELSE IF p.action = "sequence"
    THEN Dispatched(_execute_sequence(DictGetOr(p.params, "tasks", <<>>), robot))
    ELSE Dispatched(_execute_single(p.action, p.params, robot, 1))

\* execute(command) with _current_robot = robot: what it returns or raises,
\* and the adapter calls it made.
execute(command, robot) ==
    IF robot = None THEN NotInitialized
    ELSE after_parse(command, robot,
                     _parser_parse(command, ClassAttr(robot.cls, "ROBOT_TYPE")))

(***************************************************************************)
(* The factory and the skill as actions, each a whole call.                *)
(***************************************************************************)
\* What callers register besides the defaults: their own adapter under its
\* own code, and a shipped adapter under a second code.
Registrations ==
    { <<"custom_bot", "CustomAdapter">>, <<"unitree_go2_edu", "UnitreeGO2Adapter">> }

\* RobotFactory.register(robot_code)(adapter_class)
FactoryRegister(robot_code, adapter_class) ==
    /\ lastCall' = [op |-> "register", code |-> robot_code, cls |-> adapter_class]
    /\ _registry' = DictSet(_registry, robot_code, adapter_class)
    /\ result' = Returned(adapter_class)
    /\ robot_calls' = <<>>
    /\ UNCHANGED <<_parser, _current_robot, created, regVars, concVars, parseVars, chatVars>>

\* RobotFactory.list_supported(): list(cls._registry.keys())
list_supported == [n \in 1 .. Len(_registry) |-> _registry[n].key]

\* The text of create()'s ValueError naming the default codes only
UnknownRobot_default_codes(robot_code) ==
    <<"Unknown robot: ", robot_code, ". Available: ",
      [n \in 1 .. Len(DefaultRegistry) |-> DefaultRegistry[n].key]>>

\* The text of create()'s ValueError
UnknownRobot(robot_code) ==
    <<"Unknown robot: ", robot_code, ". Available: ", list_supported>>

\* RobotFactory.create(robot_code, **kwargs)
FactoryCreate(robot_code, kwargs) ==
    /\ created < MaxCreated
    /\ lastCall' = [op |-> "create", code |-> robot_code]
    /\ IF ~DictHas(_registry, robot_code)
       THEN /\ result' = Raises(UnknownRobot(robot_code))
            /\ UNCHANGED created
       ELSE /\ result' = Returned(NewAdapter(DictGet(_registry, robot_code),
                                             created + 1, kwargs))
            /\ created' = created + 1
    /\ robot_calls' = <<>>
    /\ UNCHANGED <<_registry, _parser, _current_robot, regVars, concVars, parseVars, chatVars>>

\* initialize(robot_code, **kwargs)
SkillInitialize(robot_code, kwargs) ==
    /\ created < MaxCreated
    /\ lastCall' = [op |-> "initialize", code |-> robot_code]
    /\ _parser' = "CommandParser"
    /\ IF ~DictHas(_registry, robot_code)
       THEN /\ result' = Returned(<< [key |-> "connected", val |-> FALSE],
                                     [key |-> "error", val |-> UnknownRobot(robot_code)] >>)
            /\ robot_calls' = <<>>
            /\ UNCHANGED <<_current_robot, created>>
       ELSE LET robot == NewAdapter(DictGet(_registry, robot_code), created + 1, kwargs)
                c == Invoke(robot, "connect", <<>>)
                connected == c.kind = "return" /\ c.val
            IN  /\ created' = created + 1
                /\ _current_robot' = [robot EXCEPT !.connected = connected]
                /\ robot_calls' = <<Called(0, "initialize", "connect", <<>>, c)>>
                /\ result' =
                     IF c.kind = "raise"
                     THEN Returned(<< [key |-> "connected", val |-> FALSE],
                                      [key |-> "error", val |-> c.error] >>)
                     ELSE IF c.val
                     THEN Returned(<< [key |-> "skill", val |-> "robot-controller"],
                                      [key |-> "version", val |-> "2.0.0"],
                                      [key |-> "robot",
                                       val |-> ClassAttr(robot.cls, "ROBOT_NAME")],
                                      [key |-> "code", val |-> robot_code],
                                      [key |-> "connected", val |-> TRUE] >>)
                     ELSE Returned(<< [key |-> "connected", val |-> FALSE],
                                      [key |-> "error", val |-> <<"Failed to connect">>] >>)
    /\ UNCHANGED <<_registry, regVars, concVars, parseVars, chatVars>>

\* The caller gets x.r, the adapter has seen x.calls
Answer(x) == result' = x.r /\ robot_calls' = x.calls

\* execute(command)
SkillExecute(command) ==
    /\ lastCall' = [op |-> "execute", command |-> command]
    /\ _parser' = "CommandParser"
    /\ Answer(execute(command, _current_robot))
    /\ UNCHANGED <<_registry, _current_robot, created, regVars, concVars, parseVars, chatVars>>

\* The codes create() and initialize() are asked for: the registered ones
\* and one that is not.
RobotCodes ==
    {"unitree_go1", "unitree_go2", "unitree_g1", "unitree_h1", "custom_bot",
     "unitree_go2_edu", "unitree_b2"}

\* The keyword arguments that go with a code: a fault for the caller's own
\* adapter, none for the others.
KwargsFor(robot_code) == IF robot_code = "custom_bot" THEN Faults ELSE {NoFault}

ExecNext ==
    \/ \E reg \in Registrations : FactoryRegister(reg[1], reg[2])
    \/ \E robot_code \in RobotCodes, kwargs \in Faults :
          kwargs \in KwargsFor(robot_code) /\ FactoryCreate(robot_code, kwargs)
    \/ \E robot_code \in RobotCodes, kwargs \in Faults :
          kwargs \in KwargsFor(robot_code) /\ SkillInitialize(robot_code, kwargs)
    \/ \E command \in Commands : SkillExecute(command)

SpecExec == Init /\ [][ExecNext]_vars

(***************************************************************************)
(* The dispatch of sequences, on every robot initialize() can leave.       *)
(***************************************************************************)
\* _execute_sequence(tasks)
ExecuteSequence(tasks) ==
    /\ lastCall' = [op |-> "_execute_sequence", tasks |-> tasks]
    /\ Answer(Dispatched(_execute_sequence(tasks, _current_robot)))
    /\ UNCHANGED <<_registry, _parser, _current_robot, created, regVars, concVars,
                   parseVars, chatVars>>

\* The sub-tasks sequences are made of, as the parser writes them: one the
\* shipped adapters all support, one the quadrupeds do not, a turn and one
\* the dispatcher has no branch for.
TaskKinds ==
    << TaskOf(<<"zhan", "qi", "lai">>), TaskOf(<<"tang", "xia">>),
       TaskOf(<<"zuo", "zhuan", "9", "0">>), TaskOf(<<"zhua">>) >>

RECURSIVE KindSeqs(_)
\* The sequences of at most n task kinds, by their numbers.
KindSeqs(n) ==
    IF n = 0 THEN {<<>>}
    ELSE KindSeqs(n - 1)
         \cup {Append(ks, j) : ks \in KindSeqs(n - 1), j \in 1 .. Len(TaskKinds)}

\* The task list of a sequence of kinds.
TasksOf(ks) == [n \in 1 .. Len(ks) |-> TaskKinds[ks[n]]]

\* The robots initialize() leaves in _current_robot: an instance of a
\* shipped adapter, connected, or of the caller's adapter, connected unless
\* its connect() went wrong.
ReadyRobots ==
    {[NewAdapter(cls, 1, NoFault) EXCEPT !.connected = TRUE] :
        cls \in {"UnitreeGO1Adapter", "UnitreeGO2Adapter", "UnitreeG1Adapter",
                 "UnitreeH1Adapter"}}
    \cup {[NewAdapter("CustomAdapter", 1, f) EXCEPT !.connected = (f.method # "connect")] :
            f \in Faults}

\* The skill after import, or after register() and initialize() of a robot.
RobotReady ==
    \/ ExecIdle
    \/ /\ _current_robot \in ReadyRobots
       /\ _registry = IF _current_robot.cls = "CustomAdapter"
                      THEN DictSet(DefaultRegistry, "custom_bot", "CustomAdapter")
                      ELSE DefaultRegistry
       /\ _parser = "CommandParser"
       /\ created = 1
       /\ lastCall = [op |-> "none"]
       /\ result = [kind |-> "none"]
       /\ robot_calls = <<>>

InitSeq == RegInit /\ ConcIdle /\ ParseIdle /\ RobotReady /\ ChatIdle

SeqNext == \E ks \in KindSeqs(MaxTasks) : ExecuteSequence(TasksOf(ks))

SpecSeq == InitSeq /\ [][SeqNext]_vars

(***************************************************************************)
(* Properties of the dispatch of sequences (SpecSeq).                      *)
(***************************************************************************)
\* A sequence has just been dispatched and has returned its dict.
SequenceDone == lastCall.op = "_execute_sequence" /\ result.kind = "return"

\* The results list and the success flag of the dict returned.
SeqResults == DictGet(result.val, "results")
SeqSuccess == DictGet(result.val, "success")

\* The success flag of one sub-task result, as the caller reads it.
SubSuccess(r) == DictHas(r, "success") /\ DictGet(r, "success")

\* C14: a dispatched sequence makes its adapter calls and waits in list
\* order, all those of sub-task i before any of sub-task i+1 and each for
\* the action of the sub-task it belongs to; the results list has one entry
\* per sub-task, in the order of the sub-tasks; the overall success flag is
\* the logical AND of the sub-task success flags.
C14_SequenceInOrder ==
    SequenceDone =>
        /\ \A i \in 1 .. Len(robot_calls) :
              /\ robot_calls[i].task \in 1 .. Len(lastCall.tasks)
              /\ robot_calls[i].action = lastCall.tasks[robot_calls[i].task].action
              /\ \A j \in i + 1 .. Len(robot_calls) :
                    robot_calls[i].task <= robot_calls[j].task
        /\ Len(SeqResults) = Len(lastCall.tasks)
        /\ \A n \in 1 .. Len(SeqResults) :
              /\ DictHas(SeqResults[n], "action")
                    => DictGet(SeqResults[n], "action") = lastCall.tasks[n].action
              /\ ~DictHas(SeqResults[n], "action")
                    => \E i \in 1 .. Len(robot_calls) :
                          robot_calls[i].task = n /\ robot_calls[i].r.kind = "raise"
        /\ SeqSuccess = (\A n \in 1 .. Len(SeqResults) : SubSuccess(SeqResults[n]))

\* C14 happens: stand, a turn with its wait, stand again, on a robot that
\* does all three, the five calls logged in that order; and a sequence of
\* a step that succeeds and one that fails comes out false.
C14_ThreeStepsInOrder ==
    /\ SequenceDone
    /\ Len(lastCall.tasks) = 3
    /\ [n \in 1 .. Len(robot_calls) |-> <<robot_calls[n].task, robot_calls[n].method>>]
         = << <<1, "stand">>, <<2, "move">>, <<2, "sleep">>, <<2, "stop">>,
              <<3, "stand">> >>
    /\ SeqSuccess

C14_MixedSequenceFails ==
    /\ SequenceDone
    /\ Len(SeqResults) = 2
    /\ SubSuccess(SeqResults[1]) /\ ~SubSuccess(SeqResults[2])
    /\ ~SeqSuccess

\* The actions _execute_single has a branch for, each calling the adapter.
DispatcherActions ==
    {"forward", "backward", "turn_left", "turn_right", "stand", "sit", "lie_down",
     "wave", "handshake", "stop", "go_to", "get_battery", "get_pose"}

\* The calls the log holds for sub-task n.
CallsOfTask(n) == {i \in 1 .. Len(robot_calls) : robot_calls[i].task = n}

\* Call i is the one adapter call of a direct action and returned a failed
\* result: the adapter does not support what was asked.
ReturnedFailed(i) ==
    /\ robot_calls[i].action \notin {"turn_left", "turn_right", "get_battery", "get_pose"}
    /\ robot_calls[i].r.kind = "return"
    /\ ~robot_calls[i].r.val.success

\* C15: in a dispatched sequence, a sub-task whose adapter call raised is
\* recorded as {success: False, error: the exception's text}, and one whose
\* adapter call returned a failed result as that result with success false;
\* after a failed sub-task every later sub-task is still dispatched (the
\* results list is complete and each later sub-task with a dispatcher
\* branch has made its adapter call), and the overall success is false.
C15_FailedSubtaskDoesNotStopSequence ==
    SequenceDone =>
        /\ Len(SeqResults) = Len(lastCall.tasks)
        /\ \A i \in 1 .. Len(robot_calls) :
              /\ robot_calls[i].r.kind = "raise"
                    => SeqResults[robot_calls[i].task] = Failure(robot_calls[i].r.error)
              /\ ReturnedFailed(i)
                    => /\ SeqResults[robot_calls[i].task]
                            = Outcome(robot_calls[i].r.val, robot_calls[i].action)
                       /\ ~SubSuccess(SeqResults[robot_calls[i].task])
        /\ \A n \in 1 .. Len(SeqResults) :
              ~SubSuccess(SeqResults[n])
                => /\ ~SeqSuccess
                   /\ \A m \in n + 1 .. Len(lastCall.tasks) :
                         lastCall.tasks[m].action \in DispatcherActions
                           => CallsOfTask(m) # {}

\* C15 happens: stand, lie down, stand on a quadruped, whose adapter has no
\* lie_down in its action table: the first and last steps are executed and
\* succeed, the middle one is recorded as failed, the whole is false.
C15_UnsupportedMiddleStep ==
    /\ SequenceDone
    /\ _current_robot # None
    /\ ClassAttr(_current_robot.cls, "ROBOT_TYPE") = "quadruped"
    /\ [n \in 1 .. Len(lastCall.tasks) |-> lastCall.tasks[n].action]
         = <<"stand", "lie_down", "stand">>
    /\ [n \in 1 .. Len(robot_calls) |-> <<robot_calls[n].task, robot_calls[n].method>>]
         = << <<1, "stand">>, <<2, "play_action">>, <<3, "stand">> >>
    /\ SubSuccess(SeqResults[1]) /\ ~SubSuccess(SeqResults[2]) /\ SubSuccess(SeqResults[3])
    /\ ~SeqSuccess

\* C15 happens with an exception too: the first step's adapter call raises
\* and a later step is still executed.
C15_RaisingFirstStep ==
    /\ SequenceDone
    /\ Len(robot_calls) >= 2
    /\ robot_calls[1].task = 1 /\ robot_calls[1].r.kind = "raise"
    /\ \E i \in 2 .. Len(robot_calls) :
          robot_calls[i].task > 1 /\ robot_calls[i].r.kind = "return"
    /\ ~SeqSuccess

(***************************************************************************)
(* Properties of execute() (SpecExec).                                     *)
(***************************************************************************)
\* execute() has just dispatched a turn: the calls logged are a turn's.
TurnDispatched ==
    /\ lastCall.op = "execute"
    /\ robot_calls # <<>>
    /\ robot_calls[1].action \in {"turn_left", "turn_right"}

\* The methods of the calls logged, in order.
MethodsCalled == [n \in 1 .. Len(robot_calls) |-> robot_calls[n].method]

\* The first call of a turn is move(0, 0, 0.5) for left, move(0, 0, -0.5)
\* for right; stop() is not called before it nor more than once.
TurnStartsWithMove ==
    /\ robot_calls[1].method = "move"
    /\ robot_calls[1].args
         = <<Zero, Zero, IF robot_calls[1].action = "turn_left" THEN Half ELSE NegF(Half)>>
    /\ \A i \in 2 .. Len(robot_calls) : robot_calls[i].method # "move"
    /\ Cardinality({i \in 1 .. Len(robot_calls) : robot_calls[i].method = "stop"}) <= 1

\* C16: a dispatched turn calls move() once, with zero forward and lateral
\* velocity and yaw rate 0.5 (left) or -0.5 (right), then waits, then calls
\* stop() once; stop() never comes before move(), and whenever move() has
\* returned, stop() is called before the dispatch returns.
C16_TurnMovesWaitsStops ==
    TurnDispatched =>
        /\ TurnStartsWithMove
        /\ robot_calls[1].r.kind = "return"
              => /\ MethodsCalled = <<"move", "sleep", "stop">>
                 /\ robot_calls[2].args[1].num.mag = Abs(robot_calls[2].args[1].num).mag
                 /\ robot_calls[2].args[1].den = 45

\* What the code does keep: a turn starts with the one move(); if move()
\* and the wait return, stop() follows; if the wait raises, nothing follows.
TurnAsCoded ==
    TurnDispatched =>
        /\ TurnStartsWithMove
        /\ robot_calls[1].r.kind = "return"
              => /\ Len(robot_calls) >= 2 /\ robot_calls[2].method = "sleep"
                 /\ IF robot_calls[2].r.kind = "return"
                    THEN MethodsCalled = <<"move", "sleep", "stop">>
                    ELSE MethodsCalled = <<"move", "sleep">>

\* execute() has just returned a result.
ExecuteReturned == lastCall.op = "execute" /\ result.kind = "return"

\* C17: every result execute() returns carries the four fields success,
\* message, action and parameters.
C17_ResultHasFourFields ==
    ExecuteReturned
        => {"success", "message", "action", "parameters"} \subseteq DictKeys(result.val)

\* The keys the results of execute() do carry: a dispatched action's result
\* has success, message, action; a sensor query's success and its reading;
\* a refusal or a caught exception success and error.
ResultKeysAsCoded ==
    ExecuteReturned
        => /\ DictKeys(result.val)
                \in { {"success", "message", "action"}, {"success", "battery"},
                      {"success", "position"}, {"success", "error"} }
           /\ DictGet(result.val, "success") \in BOOLEAN

\* C18: execute(command) never raises: whatever the command and the active
\* adapter, it returns a result, and an error of the parser or of an adapter
\* call comes back as success false with the error's text.
C18_ExecuteNeverRaises ==
    lastCall.op = "execute"
        => /\ result.kind = "return"
           /\ \A i \in 1 .. Len(robot_calls) :
                 robot_calls[i].r.kind = "raise"
                   => result.val = Failure(robot_calls[i].r.error)

\* What the code does keep: an exception of an adapter call or of the wait
\* is caught and returned; execute() raises only what parse() raised,
\* before any adapter call.
AdapterErrorsCaught ==
    lastCall.op = "execute"
        => /\ \A i \in 1 .. Len(robot_calls) :
                 robot_calls[i].r.kind = "raise"
                   => result = Returned(Failure(robot_calls[i].r.error))
           /\ result.kind = "raise"
                 => /\ robot_calls = <<>>
                    /\ ~NoConnective(Strip(lastCall.command))

\* The parser reports action "unknown" for the command execute() was given.
ParsedUnknown ==
    /\ _current_robot # None
    /\ _parser_parse(lastCall.command,
                      ClassAttr(_current_robot.cls, "ROBOT_TYPE")).kind = "ok"
    /\ _parser_parse(lastCall.command,
                      ClassAttr(_current_robot.cls, "ROBOT_TYPE")).action = "unknown"

\* The result is a failed one whose error text holds the command's text.
FailedNamingCommand ==
    /\ result.kind = "return"
    /\ DictHas(result.val, "success") /\ ~DictGet(result.val, "success")
    /\ DictHas(result.val, "error")
    /\ Contains(DictGet(result.val, "error"), lastCall.command)

\* C19 as stated: for a command the parser reports unknown, and likewise
\* for any command before a robot is initialised, execute() returns success
\* false naming the command and calls no operation of the adapter.
C19_UnknownNamesCommand ==
    lastCall.op = "execute" /\ (_current_robot = None \/ ParsedUnknown)
        => FailedNamingCommand /\ robot_calls = <<>>

\* C19 amended: for a command the parser reports unknown, execute() returns
\* {success: False, error: "Unknown command: <command>"} and calls no
\* operation of the adapter; with no robot initialised it returns success
\* false with the error that asks for initialize(), whatever the command,
\* and calls no operation of any adapter.
C19_UnknownOrUninitialisedRefused ==
    lastCall.op = "execute"
        => /\ ParsedUnknown
                => /\ result = Returned(Failure(<<"Unknown command: ">> \o lastCall.command))
                   /\ FailedNamingCommand
                   /\ robot_calls = <<>>
           /\ _current_robot = None
                => /\ result = NotInitialized.r
                   /\ ~DictGet(result.val, "success")
                   /\ robot_calls = <<>>

\* C19 happens: a greeting is given to an initialised robot and refused by
\* name.
C19_GreetingRefused ==
    /\ lastCall.op = "execute"
    /\ ParsedUnknown
    /\ lastCall.command = <<"nin", "hao", "4", "5">>
    /\ FailedNamingCommand
    /\ _current_robot.connected

(***************************************************************************)
(* Properties of the factory (SpecExec).                                   *)
(***************************************************************************)
\* create() has just returned an adapter.
Created == lastCall.op = "create" /\ result.kind = "return"

\* The adapter returned is a new one: numbered last, not connected, not the
\* active robot.
NewInstance ==
    /\ result.val.id = created
    /\ ~result.val.connected
    /\ _current_robot # None => _current_robot.id # result.val.id

\* C20 as stated: for every registered code, create(code) returns a new
\* adapter whose ROBOT_CODE is the code asked for.
C20_CreatedCodeMatches ==
    Created => NewInstance /\ ClassAttr(result.val.cls, "ROBOT_CODE") = lastCall.code

\* C20 amended: create(code) returns a new instance of the class bound to
\* code in the registry; its ROBOT_CODE is the code asked for when code is
\* bound to its default class (unitree_go1, unitree_go2, unitree_g1,
\* unitree_h1, the subclasses overriding the code they inherit), and for any
\* other binding exactly when the class declares that code.
C20_CreatedFromRegisteredClass ==
    Created =>
        /\ NewInstance
        /\ DictHas(_registry, lastCall.code)
        /\ result.val.cls = DictGet(_registry, lastCall.code)
        /\ DictHas(DefaultRegistry, lastCall.code)
              /\ result.val.cls = DictGet(DefaultRegistry, lastCall.code)
              => ClassAttr(result.val.cls, "ROBOT_CODE") = lastCall.code
        /\ lastCall.code = "unitree_go2_edu"
              => ClassAttr(result.val.cls, "ROBOT_CODE") = "unitree_go2"

\* C20 happens: create("unitree_h1"), whose adapter is a subclass of G1's,
\* after another adapter was made.
C20_CreatedH1 ==
    /\ Created
    /\ lastCall.code = "unitree_h1"
    /\ result.val.cls = "UnitreeH1Adapter"
    /\ ClassAttr(result.val.cls, "ROBOT_CODE") = "unitree_h1"
    /\ created = 2

\* The error text of the call just made names the code asked for and lists
\* the codes list_supported() returns after it, all of them and in order.
ListsEveryCode(e) ==
    /\ e = <<"Unknown robot: ", lastCall'.code, ". Available: ", list_supported'>>
    /\ {e[4][n] : n \in 1 .. Len(e[4])} = DictKeys(_registry')

\* C21: create(code) for a code not registered raises an error whose text
\* lists every registered code, exactly those of list_supported(), makes no
\* adapter and leaves the registry as it was; initialize(code) returns
\* {connected: False, error: that text} and does not raise.
C21_UnknownCodeRefused ==
    [][ /\ lastCall'.op = "create" /\ ~DictHas(_registry, lastCall'.code)
            => /\ result'.kind = "raise"
               /\ ListsEveryCode(result'.error)
               /\ _registry' = _registry
               /\ created' = created
               /\ _current_robot' = _current_robot
        /\ lastCall'.op = "initialize" /\ ~DictHas(_registry, lastCall'.code)
            => /\ result'.kind = "return"
               /\ DictKeys(result'.val) = {"connected", "error"}
               /\ DictGet(result'.val, "connected") = FALSE
               /\ ListsEveryCode(DictGet(result'.val, "error"))
               /\ _registry' = _registry
               /\ created' = created
               /\ robot_calls' = <<>> ]_vars

\* C21 happens: after a registration of the caller's own, create() of a
\* code nobody registered raises, with five codes to list.
C21_CreateRefused ==
    /\ lastCall.op = "create"
    /\ lastCall.code = "unitree_b2"
    /\ result.kind = "raise"
    /\ Len(_registry) = 5
    /\ Len(result.error[4]) = 5

\* C21 happens for initialize() too.
C21_InitializeRefused ==
    /\ lastCall.op = "initialize"
    /\ lastCall.code = "unitree_b2"
    /\ result.kind = "return"
    /\ ~DictGet(result.val, "connected")
    /\ Len(_registry) = 6

(***************************************************************************)
(* The adapters called directly: play_action(name) on the robot in hand.   *)
(***************************************************************************)
\* The names play_action() is given: those of GO2's table, one the
\* dispatcher asks for, and names no adapter defines.
ActionNames == {"wave", "handshake", "dance", "lie_down", "jump", "Wave", "moonwalk", ""}

\* _current_robot.play_action(action_name)
PlayAction(action_name) ==
    /\ _current_robot # None
    /\ lastCall' = [op |-> "play_action", name |-> action_name]
    /\ result' = Invoke(_current_robot, "play_action", <<action_name>>)
    /\ robot_calls' = <<>>
    /\ UNCHANGED <<_registry, _parser, _current_robot, created, regVars, concVars,
                   parseVars, chatVars>>

AdapterNext == \E action_name \in ActionNames : PlayAction(action_name)

SpecAdapter == InitSeq /\ [][AdapterNext]_vars

\* The adapters the repository ships.
ShippedAdapters ==
    {"UnitreeGO1Adapter", "UnitreeGO2Adapter", "UnitreeG1Adapter", "UnitreeH1Adapter"}

\* The action table play_action() of an adapter class looks names up in:
\* GO2's dict, which GO1 inherits; G1 and H1 have none.
ActionTable(cls) ==
    IF Implementer(cls, "play_action") = "UnitreeGO2Adapter" THEN DictKeys(GO2Actions)
    ELSE {}

\* play_action() has just been called on a shipped adapter.
PlayedOnShipped == lastCall.op = "play_action" /\ _current_robot.cls \in ShippedAdapters

\* C22: on every shipped adapter play_action(name) does not raise, returns
\* success true only for a name in the adapter's action table and success
\* false for every name outside it.
C22_PlayActionByTable ==
    PlayedOnShipped
        => /\ result.kind = "return"
           /\ result.val.success <=> lastCall.name \in ActionTable(_current_robot.cls)

\* What the code does keep: no shipped play_action() raises; the quadrupeds
\* answer by GO2's table, the humanoids say yes to every name.
PlayActionAsCoded ==
    PlayedOnShipped
        => /\ result.kind = "return"
           /\ result.val.success
                <=> \/ lastCall.name \in ActionTable(_current_robot.cls)
                    \/ ClassAttr(_current_robot.cls, "ROBOT_TYPE") = "humanoid"

(***************************************************************************)
(* The robot controller's speed setting and the message handler's history  *)
(* (robot_controller.py, whatsapp_handler.py).  A message is the sequence  *)
(* of its words, blanks and characters.  The driver's commands to the      *)
(* robot change nothing the controller or the handler keeps.               *)
(***************************************************************************)
MaxMessages == 2

\* self.max_history
max_history == 100

\* The floats 0.0 and 1.0, and float('nan'), which is less than, greater
\* than and equal to nothing (no decimal expansion has whole part -1).
ZeroF == Float(FALSE, 0, <<>>)
OneF == Float(FALSE, 1, <<>>)
NaN == Float(FALSE, 0 - 1, <<>>)
IsNaN(f) == f.whole < 0

RECURSIVE FracLt(_, _)
\* 0.a < 0.b for fraction digits without trailing zeros
FracLt(a, b) ==
    IF b = <<>> THEN FALSE
    ELSE IF a = <<>> THEN TRUE
    ELSE a[1] < b[1] \/ (a[1] = b[1] /\ FracLt(Tail(a), Tail(b)))

\* |a| < |b|
FloatMagLt(a, b) ==
    a.whole < b.whole \/ (a.whole = b.whole /\ FracLt(a.frac, b.frac))

\* f is below zero (-0.0 is not)
Negative(f) == f.neg /\ ~(f.whole = 0 /\ f.frac = <<>>)

\* a < b of two floats
FloatLt(a, b) ==
    IF IsNaN(a) \/ IsNaN(b) THEN FALSE
    ELSE IF Negative(a) /\ ~Negative(b) THEN TRUE
    ELSE IF ~Negative(a) /\ Negative(b) THEN FALSE
    ELSE IF Negative(a) THEN FloatMagLt(b, a)
    ELSE FloatMagLt(a, b)

\* min(a, b) and max(a, b) as Python computes them: the first argument
\* unless the second is less (greater).
min2(a, b) == IF FloatLt(b, a) THEN b ELSE a
max2(a, b) == IF FloatLt(a, b) THEN b ELSE a

\* set_speed() without the lower limit
set_speed_no_lower_limit(speed) == min2(OneF, speed)

\* set_speed(speed): the value stored in current_speed
set_speed(speed) == max2(ZeroF, min2(OneF, speed))

\* list[i:]
PyFrom(list, i) ==
    SubSeq(list,
           (IF i < 0 THEN (IF Len(list) + i > 0 THEN Len(list) + i ELSE 0)
            ELSE (IF i < Len(list) THEN i ELSE Len(list))) + 1,
           Len(list))

\* get_command_history(limit): self.command_history[-limit:]
get_command_history(history, limit) == PyFrom(history, 0 - limit)

\* _add_to_history(): append, then keep the last max_history entries
_add_to_history(history, entry) ==
    IF Len(Append(history, entry)) > max_history
    THEN PyFrom(Append(history, entry), 0 - max_history)
    ELSE Append(history, entry)

RECURSIVE SpaceRun(_, _)
\* How many blanks s holds from position pos on (\s* and \s+).
SpaceRun(s, pos) ==
    IF pos <= Len(s) /\ s[pos] = " " THEN 1 + SpaceRun(s, pos + 1) ELSE 0

\* \d+(?:\.\d+)? matching all of s
IsNumber(s) ==
    /\ DigitRun(s, 1) >= 1
    /\ \/ DigitRun(s, 1) = Len(s)
       \/ /\ DigitRun(s, 1) < Len(s)
          /\ s[DigitRun(s, 1) + 1] = "."
          /\ DigitRun(s, DigitRun(s, 1) + 2) >= 1
          /\ DigitRun(s, 1) + 1 + DigitRun(s, DigitRun(s, 1) + 2) = Len(s)

\* \d+ matching all of s
IsDigits(s) == s # <<>> /\ DigitRun(s, 1) = Len(s)

RECURSIVE WordRun(_, _)
\* How many word characters (\w) s holds from position pos on.
WordRun(s, pos) ==
    IF pos <= Len(s) /\ s[pos] \notin {" ", "=", "."} THEN 1 + WordRun(s, pos + 1) ELSE 0

\* s from position pos on
From(s, pos) == SubSeq(s, pos, Len(s))

\* COMMAND_PATTERNS by the word a pattern starts with.  A message is in
\* lower case (the patterns ignore case), and a Chinese word is one token.
MoveWords ==
    << [key |-> "forward", val |-> "move_forward"], [key |-> "qianjin", val |-> "move_forward"],
       [key |-> "qian", val |-> "move_forward"],
       [key |-> "backward", val |-> "move_backward"], [key |-> "houtui", val |-> "move_backward"],
       [key |-> "hou", val |-> "move_backward"],
       [key |-> "left", val |-> "move_left"], [key |-> "zuo", val |-> "move_left"],
       [key |-> "xiangzuo", val |-> "move_left"],
       [key |-> "right", val |-> "move_right"], [key |-> "you", val |-> "move_right"],
       [key |-> "xiangyou", val |-> "move_right"] >>
GoWords == {"forward", "backward", "left", "right"}
RotateWords ==
    << [key |-> "rotate", val |-> {"left", "right"}], [key |-> "xuanzhuan", val |-> {"zuo", "you"}],
       [key |-> "zhuan", val |-> {"zuo", "you"}], [key |-> "turn", val |-> {"left", "right"}] >>
PlainWords ==
    << [key |-> "stop", val |-> "stop"], [key |-> "tingzhi", val |-> "stop"],
       [key |-> "ting", val |-> "stop"], [key |-> "halt", val |-> "stop"],
       [key |-> "stand", val |-> "stop"],
       [key |-> "status", val |-> "status"], [key |-> "zhuangtai", val |-> "status"],
       [key |-> "jiqirenzhuangtai", val |-> "status"],
       [key |-> "help", val |-> "help"], [key |-> "bangzhu", val |-> "help"],
       [key |-> "shiyongshuoming", val |-> "help"], [key |-> "minglingliebiao", val |-> "help"] >>
ActionWords == {"action", "dongzuo", "zhixing"}
SpeedWords == {"speed", "sudu"}

\* ParsedCommand of the handler
HandlerCommand(command_type, args, is_valid) ==
    [command_type |-> command_type, args |-> args, is_valid |-> is_valid]

UnknownCommand == HandlerCommand("unknown", <<>>, FALSE)

\* min(1.0, max(0.0, float(groups[0]))) of _extract_args
ExtractSpeed(s) == min2(OneF, max2(ZeroF, float(s).val))

\* A move pattern: the word, then nothing or blanks and a number.
parse_move(command_type, blanks, arg) ==
    IF blanks = 0 /\ arg = <<>>
    THEN HandlerCommand(command_type, <<[key |-> "speed", val |-> Float(FALSE, 0, <<5>>)]>>, TRUE)
    ELSE IF blanks >= 1 /\ IsNumber(arg)
    THEN HandlerCommand(command_type, <<[key |-> "speed", val |-> ExtractSpeed(arg)]>>, TRUE)
    ELSE UnknownCommand

\* The arguments of a rotation: a direction other than left and right
\* counts as right, the angle is 90 unless given.
RotateArgs(direction, angle) ==
    << [key |-> "direction", val |-> IF direction = <<"left">> THEN "left" ELSE "right"],
       [key |-> "angle",
        val |-> IF angle = <<>> THEN PyInt(FALSE, <<9, 0>>) ELSE int(angle).val] >>

\* A rotation pattern: the word, then a direction, an angle, both or neither,
\* with or without blanks between them.
parse_rotate(directions, arg) ==
    IF arg = <<>> \/ IsDigits(arg) THEN HandlerCommand("rotate", RotateArgs(<<>>, arg), TRUE)
    ELSE IF arg[1] \in directions
            /\ (From(arg, 2 + SpaceRun(arg, 2)) = <<>> \/ IsDigits(From(arg, 2 + SpaceRun(arg, 2))))
    THEN HandlerCommand("rotate", RotateArgs(<<arg[1]>>, From(arg, 2 + SpaceRun(arg, 2))), TRUE)
    ELSE UnknownCommand

\* An action pattern: the word, blanks, a name, then nothing or blanks and
\* parameters.
parse_action(blanks, arg) ==
    IF blanks >= 1 /\ WordRun(arg, 1) >= 1
       /\ (WordRun(arg, 1) = Len(arg) \/ arg[WordRun(arg, 1) + 1] = " ")
    THEN HandlerCommand("action",
                        <<[key |-> "action_name", val |-> SubSeq(arg, 1, WordRun(arg, 1))]>>
                        \o (IF WordRun(arg, 1) = Len(arg) THEN <<>>
                            ELSE <<[key |-> "params",
                                    val |-> Strip(From(arg, WordRun(arg, 1) + 1))]>>),
                        TRUE)
    ELSE UnknownCommand

\* A speed pattern: the word, "=" between any blanks (for sudu blanks
\* alone will do), and a number.
parse_speed(word, blanks, arg) ==
    IF arg # <<>> /\ arg[1] = "=" /\ IsNumber(From(arg, 2 + SpaceRun(arg, 2)))
    THEN HandlerCommand("speed",
                        <<[key |-> "speed", val |-> ExtractSpeed(From(arg, 2 + SpaceRun(arg, 2)))]>>,
                        TRUE)
    ELSE IF word = "sudu" /\ blanks >= 1 /\ IsNumber(arg)
    THEN HandlerCommand("speed", <<[key |-> "speed", val |-> ExtractSpeed(arg)]>>, TRUE)
    ELSE UnknownCommand

\* parse_command(message) for a first word, the blanks after it and the
\* rest: the patterns starting with the word decide, no match is UNKNOWN.
parse_words(word, blanks, arg) ==
    CASE DictHas(MoveWords, word) -> parse_move(DictGet(MoveWords, word), blanks, arg)
      [] word = "go" /\ arg # <<>> /\ arg[1] \in GoWords ->
            parse_move(DictGet(MoveWords, arg[1]), SpaceRun(arg, 2), From(arg, 2 + SpaceRun(arg, 2)))
      [] DictHas(RotateWords, word) -> parse_rotate(DictGet(RotateWords, word), arg)
      [] DictHas(PlainWords, word) /\ blanks = 0 /\ arg = <<>> ->
            HandlerCommand(DictGet(PlainWords, word), <<>>, TRUE)
      [] word \in ActionWords -> parse_action(blanks, arg)
      [] word \in SpeedWords -> parse_speed(word, blanks, arg)
      [] OTHER -> UnknownCommand

\* parse_command(message)
parse_command(message) ==
    IF message = <<>> THEN UnknownCommand
    ELSE parse_words(message[1], SpaceRun(message, 2), From(message, 2 + SpaceRun(message, 2)))

\* The entry _add_to_history() appends; the timestamp is the clock's tick.
HistoryEntry(sender_id, message, pc, timestamp) ==
    [sender |-> sender_id, message |-> message, command |-> pc.command_type,
     success |-> pc.is_valid, timestamp |-> timestamp]

\* What _execute_command() answers, by its kind.
Response(pc, connected) ==
    IF ~pc.is_valid THEN "error"
    ELSE IF ~connected /\ pc.command_type \notin {"help", "status"} THEN "not_connected"
    ELSE pc.command_type

\* current_speed after _execute_command(): a speed command on a connected
\* robot sets it, nothing else does.
SpeedAfter(pc, connected, speed) ==
    IF pc.is_valid /\ connected /\ pc.command_type = "speed"
    THEN set_speed(DictGet(pc.args, "speed"))
    ELSE speed

\* process_message() once the message is cleaned and pc
Processed(message, sender_id, clean_message, pc) ==
    /\ arrived' = Append(arrived, [sender |-> sender_id, message |-> message])
    /\ command_history' =
           _add_to_history(command_history,
                           HistoryEntry(sender_id, clean_message, pc, Len(arrived) + 1))
    /\ current_speed' = SpeedAfter(pc, controller_connected, current_speed)
    /\ lastIO' = [op |-> "process_message", message |-> message, sender |-> sender_id,
                  response |-> Response(pc, controller_connected)]

\* The history already holds this many messages when the model starts.
Prefilled == {0, max_history - 1}

\* process_message(message, sender_id)
ProcessMessage(message, sender_id) ==
    /\ \E k \in Prefilled : Len(arrived) >= k /\ Len(arrived) < k + MaxMessages
    /\ Processed(message, sender_id, Strip(message), parse_command(Strip(message)))
    /\ UNCHANGED <<controller_connected, regVars, concVars, parseVars, execVars>>

\* get_command_history(limit)
GetCommandHistory(limit) ==
    /\ lastIO' = [op |-> "get_command_history", limit |-> limit,
                  ret |-> get_command_history(command_history, limit)]
    /\ UNCHANGED <<controller_connected, current_speed, command_history, arrived,
                   regVars, concVars, parseVars, execVars>>

\* controller.set_speed(speed)
SetSpeed(speed) ==
    /\ current_speed' = set_speed(speed)
    /\ lastIO' = [op |-> "set_speed", speed |-> speed]
    /\ UNCHANGED <<controller_connected, command_history, arrived,
                   regVars, concVars, parseVars, execVars>>

\* controller.connect(): the driver's answer is stored; controller.disconnect()
ControllerConnect(ok) ==
    /\ controller_connected' = ok
    /\ lastIO' = [op |-> "connect", ret |-> ok]
    /\ UNCHANGED <<current_speed, command_history, arrived,
                   regVars, concVars, parseVars, execVars>>

\* The messages that arrive, each with its sender: a command with blanks
\* around, a text that is no command, a speed beyond the limit, a move.
Arrivals ==
    { [sender |-> "user1", message |-> <<" ", "stop", " ">>],
      [sender |-> "user2", message |-> <<"hello">>],
      [sender |-> "user1", message |-> <<"speed", " ", "=", " ", "1", ".", "5">>],
      [sender |-> "user2", message |-> <<"forward", " ", "0", ".", "2", "5">>],
      [sender |-> "user1", message |-> <<"turn", " ", "left", " ", "4", "5">>],
      [sender |-> "user2", message |-> <<"speed", " ", "0", ".", "2", "5">>] }

\* The speeds set_speed() is given.
Speeds ==
    { Float(FALSE, 0, <<8>>), Float(FALSE, 1, <<5>>), Float(TRUE, 0, <<5>>),
      Float(FALSE, 0, <<>>), Float(TRUE, 0, <<>>), Float(FALSE, 1, <<>>),
      Float(FALSE, 1, <<0, 0, 1>>), Float(TRUE, 0, <<0, 0, 1>>),
      Float(FALSE, 250, <<>>), NaN }

\* The limits get_command_history() is given.
Limits == {0, 1, 2, 10, max_history, max_history + 1}

\* The message the handler got as its i-th before the model starts.
Earlier(i) ==
    IF i % 2 = 1 THEN [sender |-> "user1", message |-> <<"stop">>]
    ELSE [sender |-> "user2", message |-> <<"hello">>]

\* The handler after k such messages.
ChatStart ==
    /\ controller_connected = FALSE
    /\ current_speed = Float(FALSE, 0, <<5>>)
    /\ lastIO = [op |-> "none"]
    /\ \E k \in Prefilled :
          /\ arrived = [i \in 1 .. k |-> Earlier(i)]
          /\ command_history =
                [i \in 1 .. k |->
                    HistoryEntry(Earlier(i).sender, Earlier(i).message,
                                 parse_command(Earlier(i).message), i)]

InitChat == RegInit /\ ConcIdle /\ ParseIdle /\ ExecIdle /\ ChatStart

ChatNext ==
    \/ \E a \in Arrivals : ProcessMessage(a.message, a.sender)
    \/ \E limit \in Limits : GetCommandHistory(limit)
    \/ \E speed \in Speeds : SetSpeed(speed)
    \/ \E ok \in BOOLEAN : ControllerConnect(ok)

SpecChat == InitChat /\ [][ChatNext]_vars

\* a = b of two floats (-0.0 = 0.0, NaN equals nothing)
FloatEq(a, b) == ~IsNaN(a) /\ ~IsNaN(b) /\ ~FloatLt(a, b) /\ ~FloatLt(b, a)

\* 0 <= f <= 1
InUnit(f) == ~IsNaN(f) /\ ~FloatLt(f, ZeroF) /\ ~FloatLt(OneF, f)

\* v limited to [0, 1]: below 0 it is 0, above 1 it is 1, else v itself.
Clamped(v) ==
    IF Negative(v) THEN ZeroF
    ELSE IF v.whole >= 1 THEN OneF
    ELSE Float(FALSE, v.whole, v.frac)

\* C23: current_speed always lies in [0, 1], and after set_speed(v) it is v
\* limited to [0, 1]: 1.5 gives 1.0, a negative value 0.0, a value in [0, 1]
\* is stored as it is.  (v is a number; for NaN the stored value is 1.0.)
C23_SpeedClamped ==
    /\ InUnit(current_speed)
    /\ lastIO.op = "set_speed" /\ ~IsNaN(lastIO.speed)
          => current_speed = Clamped(lastIO.speed)
    /\ lastIO.op = "set_speed" /\ InUnit(lastIO.speed)
          => FloatEq(current_speed, lastIO.speed)

\* set_speed(-0.5) has just stored 0.0.
C23_NegativeSpeedStoredAsZero ==
    /\ lastIO.op = "set_speed"
    /\ lastIO.speed = Float(TRUE, 0, <<5>>)
    /\ current_speed = ZeroF

\* The processed messages, oldest first, as the history records them: the
\* sender and the message without the blanks around it.
Recorded(h) == [i \in 1 .. Len(h) |-> [sender |-> h[i].sender, message |-> h[i].message]]
Processed_messages ==
    [i \in 1 .. Len(arrived) |->
        [sender |-> arrived[i].sender, message |-> Strip(arrived[i].message)]]

\* The smallest of three numbers.
Min3(a, b, c) == IF a <= b /\ a <= c THEN a ELSE IF b <= c THEN b ELSE c

\* The last k of s.
LastOf(s, k) == SubSeq(s, Len(s) - k + 1, Len(s))

\* get_command_history() has just returned.
HistoryAsked == lastIO.op = "get_command_history"

\* C24: get_command_history(limit) returns at most limit entries, the most
\* recent min(limit, n, 100) of the n processed messages, oldest first, each
\* with its sender; the stored history never holds more than 100 entries.
C24_HistoryAtMostLimit ==
    /\ Len(command_history) <= max_history
    /\ HistoryAsked
          => /\ Len(lastIO.ret) <= lastIO.limit
             /\ Recorded(lastIO.ret)
                   = LastOf(Processed_messages, Min3(lastIO.limit, Len(arrived), max_history))

\* What the code does keep: the stored history is the last 100 processed
\* messages, oldest first with their senders, and for a limit of 1 or more
\* the answer is its last min(limit, n, 100) entries; a limit of 0 returns
\* the whole stored history.
HistoryAsCoded ==
    /\ Len(command_history) <= max_history
    /\ Recorded(command_history)
          = LastOf(Processed_messages, Min3(max_history, Len(arrived), max_history))
    /\ HistoryAsked /\ lastIO.limit >= 1
          => Recorded(lastIO.ret)
                = LastOf(Processed_messages, Min3(lastIO.limit, Len(arrived), max_history))
    /\ HistoryAsked /\ lastIO.limit = 0 => lastIO.ret = command_history

\* The 101st message has pushed the oldest entry out of the history.
HistoryTrimmed ==
    /\ Len(arrived) = max_history + 1
    /\ Len(command_history) = max_history
    /\ command_history[1].timestamp = 2

\* The text holds a sequence connective.
HasConnective(s) == \E n \in 1 .. Len(Connectives) : Contains(s, Connectives[n])

\* parse(s) calls parse(s) again: s holds a connective and is itself one of
\* the parts its split hands to parse().
ParsesItself(s) ==
    /\ HasConnective(Strip(s))
    /\ \E n \in 1 .. Len(split(Strip(s))) :
          Strip(split(Strip(s))[n]) # <<>> /\ Strip(Strip(split(Strip(s))[n])) = Strip(s)

\* C25: parse() returns a ParsedCommand for every text, also for a text
\* with one or more sequence connectives.
C25_ParseReturns ==
    Parsed => /\ parsed.kind = "ok"
              /\ parsed.action \in {ACTION_PATTERNS[a].action : a \in 1 .. Len(ACTION_PATTERNS)}
                                    \cup {"unknown", "sequence"}

\* What the code does: parse() returns for exactly the texts without a
\* connective; of a text with one, the split hands the connective itself to
\* parse(), and parse() of a connective calls parse() of that connective.
ParseReturnsAsCoded ==
    Parsed =>
        /\ parsed.kind = "ok" <=> ~HasConnective(Strip(text))
        /\ HasConnective(Strip(text))
              => /\ parsed = RecursionError
                 /\ \E n \in 1 .. Len(split(Strip(text))) :
                       ParsesItself(split(Strip(text))[n])

\* C26: a dispatched sequence reports success only if it holds at least one
\* sub-task; a sequence with an empty task list is not reported successful.
C26_EmptySequenceNotSuccessful ==
    SequenceDone /\ SeqSuccess => Len(lastCall.tasks) >= 1

\* What the code does with an empty task list: no adapter call, an empty
\* results list and success true.
EmptySequenceAsCoded ==
    SequenceDone /\ lastCall.tasks = <<>>
        => /\ robot_calls = <<>>
           /\ SeqResults = <<>>
           /\ SeqSuccess

\* execute() has parsed its command to a single action and dispatched it;
\* ParsedAction is the action tag the parser gave.
ParsedAction ==
    _parser_parse(lastCall.command, ClassAttr(_current_robot.cls, "ROBOT_TYPE")).action
SingleDispatched ==
    /\ lastCall.op = "execute"
    /\ _current_robot # None
    /\ _parser_parse(lastCall.command,
                      ClassAttr(_current_robot.cls, "ROBOT_TYPE")).kind = "ok"
    /\ ParsedAction \notin {"unknown", "sequence"}

\* C27: every action tag the parser emits, other than "unknown" and
\* "sequence", has a dispatcher branch that calls the active adapter; a
\* parsed grasp or release reaches the adapter's grasp() or release().
C27_EveryActionReachesAdapter ==
    SingleDispatched
        => /\ robot_calls # <<>>
           /\ ParsedAction \in {"grasp", "release"}
                 => \E i \in 1 .. Len(robot_calls) : robot_calls[i].method = ParsedAction

\* What the code does: the thirteen actions with a branch call the adapter,
\* grasp and release fall to the dispatcher's last line and call nothing.
DispatchAsCoded ==
    SingleDispatched
        => /\ ParsedAction \in DispatcherActions \cup {"grasp", "release"}
           /\ ParsedAction \in DispatcherActions => robot_calls # <<>>
           /\ ParsedAction \in {"grasp", "release"}
                 => /\ robot_calls = <<>>
                    /\ result = Returned(<< [key |-> "success", val |-> FALSE],
                                            [key |-> "message",
                                             val |-> <<"Unknown action: ", ParsedAction>>],
                                            [key |-> "action", val |-> ParsedAction] >>)

\* initialize() has just returned connected = false.
InitializeFailed ==
    /\ lastCall.op = "initialize"
    /\ result.kind = "return"
    /\ ~DictGet(result.val, "connected")

\* C28: an execute() that follows an initialize() which returned
\* connected = false calls no operation of any adapter, and an adapter that
\* is not connected is never commanded by execute().
C28_NoCommandAfterFailedInitialize ==
    [][lastCall'.op = "execute"
         => /\ InitializeFailed => robot_calls' = <<>>
            /\ robot_calls' # <<>> => _current_robot'.connected]_vars

\* What the code does: execute() looks only at whether _current_robot is
\* set.  After a failed initialize() it commands the adapter that did not
\* connect, or, when the code was unknown, the robot of the initialize()
\* before; it refuses when there has been none.
ExecuteAfterFailedInitializeAsCoded ==
    [][InitializeFailed /\ lastCall'.op = "execute"
         => /\ _current_robot = None => result' = NotInitialized.r /\ robot_calls' = <<>>
            /\ _current_robot # None
                 /\ _parser_parse(lastCall'.command,
                                   ClassAttr(_current_robot.cls, "ROBOT_TYPE")).kind = "ok"
                 /\ _parser_parse(lastCall'.command,
                                   ClassAttr(_current_robot.cls, "ROBOT_TYPE")).action
                        \in DispatcherActions
                 => robot_calls' # <<>>]_vars

\* The adapter's move() and stop() among the calls of the dispatch.
MoveAndStopCalls == {i \in 1 .. Len(robot_calls) : robot_calls[i].method \in {"move", "stop"}}

\* A turn has been dispatched by execute() and reported success = true.
TurnSucceeded == TurnDispatched /\ ExecuteReturned /\ SubSuccess(result.val)

\* C29: a turn reports success = true only if the adapter's move() and its
\* stop() were both called and both returned successful results.
C29_TurnSuccessNeedsMoveAndStop ==
    TurnSucceeded
        => /\ {robot_calls[i].method : i \in MoveAndStopCalls} = {"move", "stop"}
           /\ \A i \in MoveAndStopCalls :
                 robot_calls[i].r.kind = "return" /\ robot_calls[i].r.val.success

\* What the code does: a turn reports success exactly when move(), the wait
\* and stop() all returned, whatever results move() and stop() returned.
TurnSuccessAsCoded ==
    TurnDispatched /\ ExecuteReturned
        => (SubSuccess(result.val)
              <=> /\ MethodsCalled = <<"move", "sleep", "stop">>
                  /\ \A i \in 1 .. Len(robot_calls) : robot_calls[i].r.kind = "return")

(***************************************************************************)
(* Looking plugins up in the registry.                                     *)
(***************************************************************************)
\* get(name, version): self._plugins.get(full_name), the instance found or
\* 0 for None.
get(name, version) ==
    IF DictHas(plugins, FullName(name, version))
    THEN DictGet(plugins, FullName(name, version))
    ELSE 0

\* PluginRegistry.get(name, version); lastOp.inst is the instance returned.
Get(name, version) ==
    /\ lastOp' = Op("get", get(name, version), name, version)
    /\ ret' = IF get(name, version) = 0 THEN "None" ELSE "plugin"
    /\ calls' = <<>>
    /\ UNCHANGED <<plugins, metadata, is_initialized, is_running,
                   concVars, parseVars, execVars, chatVars>>

LookupNext ==
    \/ \E i \in Instances : Register(i)
    \/ \E name \in UnregisterNames, version \in UnregisterVersions,
          so \in {"ok", "raise"}, sh \in {"ok", "raise"} :
            Unregister(name, version, so, sh)
    \/ \E oc \in OutcomeMaps({"ok"}) : InitializeAll(oc)
    \/ \E name \in UnregisterNames, version \in UnregisterVersions : Get(name, version)

SpecLookup == Init /\ [][LookupNext]_vars

\* The registered plugins with PLUGIN_NAME name.
RegisteredAs(name) ==
    {plugins[n].val : n \in {m \in 1 .. Len(plugins) : ClassOf(plugins[m].val).PLUGIN_NAME = name}}

\* C30: for a plugin registered under name@version, get(name) without the
\* version returns that plugin, and after unregister(name) without the
\* version the plugin is in neither map.
C30_VersionOptional ==
    /\ lastOp.op = "get" /\ lastOp.version = <<>>
          => \A i \in RegisteredAs(lastOp.name) : lastOp.inst = i
    /\ lastOp.op = "unregister" /\ lastOp.version = <<>> /\ ret # "raise"
          => /\ RegisteredAs(lastOp.name) = {}
             /\ \A n \in 1 .. Len(metadata) : metadata[n].val.name # lastOp.name

\* What the code does: without the version the key looked up is the bare
\* name, which no registered plugin has; get() returns None and
\* unregister() removes nothing.  With the version both find the plugin.
LookupAsCoded ==
    [][/\ lastOp'.op = "get" /\ RegisteredAs(lastOp'.name) # {}
          => IF lastOp'.version = <<>> THEN lastOp'.inst = 0
             ELSE lastOp'.inst \in RegisteredAs(lastOp'.name)
       /\ lastOp'.op = "unregister" /\ RegisteredAs(lastOp'.name) # {} /\ ret' # "raise"
          => IF lastOp'.version = <<>>
             THEN plugins' = plugins /\ metadata' = metadata
             ELSE /\ \A n \in 1 .. Len(plugins') :
                        ClassOf(plugins'[n].val).PLUGIN_NAME # lastOp'.name
                  /\ \A n \in 1 .. Len(metadata') :
                        metadata'[n].val.name # lastOp'.name]_vars

====
